---- MODULE Spec2Model ----
(***************************************************************************)
(* A model of the statement parsing engine of credit_cards_tracker:        *)
(* parser.py (stitch_wrapped_lines, extract_transactions_from_pdf) and     *)
(* parser_utils.py (normalize_amount, detect_bank_type_from_filename, the  *)
(* summary extractors).                                                    *)
(*                                                                         *)
(* Text is modelled as TLA+ strings, character by character.  The regular  *)
(* expressions of the source are written as data (ReXxx constructors) and  *)
(* run by one backtracking matcher, ReFirst, that explores alternatives in *)
(* the priority order of Python's re module, so that the match found, and  *)
(* its groups, are the ones the source gets.  Money amounts are integers   *)
(* in cents.                                                               *)
(***************************************************************************)
EXTENDS Integers, Sequences, FiniteSets, TLC

(***************************************************************************)
(* Characters and Python's str methods                                     *)
(***************************************************************************)
\* F applied to the value v: a local name for a value
Let(v, F(_)) == F(v)

Char(s, i) == SubSeq(s, i, i)

Chars(s) == {Char(s, k) : k \in 1..Len(s)}

UpperLetters == "ABCDEFGHIJKLMNOPQRSTUVWXYZ"

LowerLetters == "abcdefghijklmnopqrstuvwxyz"

DigitChars == Chars("0123456789")

LetterChars == Chars(UpperLetters) \cup Chars(LowerLetters)

WordChars == LetterChars \cup DigitChars \cup {"_"}

SpaceChars == {" ", "\t", "\n", "\r", "\f"}

ToLowerChar ==
    [c \in Chars(UpperLetters) |->
        LET k == CHOOSE j \in 1..26 : Char(UpperLetters, j) = c
        IN  Char(LowerLetters, k)]

LowerChar(c) == IF c \in DOMAIN ToLowerChar THEN ToLowerChar[c] ELSE c

\* s.lower(), by halves
RECURSIVE Lower(_)
Lower(s) ==
    IF s = "" THEN ""
    ELSE IF Len(s) = 1 THEN LowerChar(s)
    ELSE LET h == Len(s) \div 2
         IN  Lower(SubSeq(s, 1, h)) \o Lower(SubSeq(s, h + 1, Len(s)))

\* s[i:] of Python, i counted from 1
From(s, i) == IF i > Len(s) THEN "" ELSE SubSeq(s, i, Len(s))

StartsWith(s, p) == Len(p) <= Len(s) /\ SubSeq(s, 1, Len(p)) = p

\* sub in s
Contains(s, sub) ==
    \E i \in 1..(Len(s) - Len(sub) + 1) : SubSeq(s, i, i + Len(sub) - 1) = sub

\* the least i in from..Len(s) with s[i] in S (resp. not in S); Len(s)+1 if none
FirstIn(s, from, S) ==
    CHOOSE i \in from..(Len(s) + 1) :
        /\ i = Len(s) + 1 \/ Char(s, i) \in S
        /\ \A j \in from..(i - 1) : Char(s, j) \notin S

FirstNotIn(s, from, S) ==
    CHOOSE i \in from..(Len(s) + 1) :
        /\ i = Len(s) + 1 \/ Char(s, i) \notin S
        /\ \A j \in from..(i - 1) : Char(s, j) \in S

\* the greatest i in 1..Len(s) with s[i] not in S; 0 if none
LastNotIn(s, S) ==
    CHOOSE i \in 0..Len(s) :
        /\ i = 0 \/ Char(s, i) \notin S
        /\ \A j \in (i + 1)..Len(s) : Char(s, j) \in S

\* s.strip()
Strip(s) ==
    LET a == FirstNotIn(s, 1, SpaceChars)
    IN  IF a > Len(s) THEN "" ELSE SubSeq(s, a, LastNotIn(s, SpaceChars))

\* the least i >= from at which old occurs in s; 0 if none
FindFrom(s, old, from) ==
    LET last == Len(s) - Len(old) + 1
        hit(i) == SubSeq(s, i, i + Len(old) - 1) = old
    IN  IF \E i \in from..last : hit(i)
        THEN CHOOSE i \in from..last : hit(i) /\ \A j \in from..(i - 1) : ~hit(j)
        ELSE 0

\* s.replace(old, new) for a non-empty old
RECURSIVE ReplaceFrom(_, _, _, _)
ReplaceFrom(s, old, new, from) ==
    LET i == FindFrom(s, old, from)
    IN  IF i = 0 THEN From(s, from)
        ELSE SubSeq(s, from, i - 1) \o new \o ReplaceFrom(s, old, new, i + Len(old))

Replace(s, old, new) == ReplaceFrom(s, old, new, 1)

\* s.split(sep) for a one-character sep: a sequence of strings
RECURSIVE SplitFrom(_, _, _)
SplitFrom(s, sep, from) ==
    LET i == FirstIn(s, from, {sep})
    IN  IF i > Len(s) THEN <<From(s, from)>>
        ELSE <<SubSeq(s, from, i - 1)>> \o SplitFrom(s, sep, i + 1)

Split(s, sep) == SplitFrom(s, sep, 1)

\* s.split(): the maximal runs of non-whitespace
RECURSIVE WordsFrom(_, _)
WordsFrom(s, from) ==
    LET a == FirstNotIn(s, from, SpaceChars)
    IN  IF a > Len(s) THEN <<>>
        ELSE LET e == FirstIn(s, a, SpaceChars)
             IN  <<SubSeq(s, a, e - 1)>> \o WordsFrom(s, e)

SplitWords(s) == WordsFrom(s, 1)

\* sep.join(xs)
RECURSIVE Join(_, _)
Join(xs, sep) ==
    IF xs = <<>> THEN ""
    ELSE IF Len(xs) = 1 THEN xs[1]
    ELSE xs[1] \o sep \o Join(Tail(xs), sep)

(***************************************************************************)
(* Regular expressions as data, and a backtracking matcher with the        *)
(* priority order of Python's re                                           *)
(***************************************************************************)
Unbounded == -1

ReLit(s) == [t |-> "lit", s |-> s, c |-> Char(s, 1), ic |-> FALSE]

\* a literal under re.IGNORECASE (written in lower case)
ReLitI(s) == [t |-> "lit", s |-> Lower(s), c |-> Lower(Char(s, 1)), ic |-> TRUE]

ReSet(S) == [t |-> "set", s |-> S]

\* the nodes without operands: "dot" is . and "any" is . under re.DOTALL,
\* "nsp" is \S, "bos" and "eos" are ^ and $, "bol" and "eol" are ^ and $
\* under re.MULTILINE, "wb" is \b
ReAtom(t) == [t |-> t]

ReSeq(xs) == [t |-> "seq", xs |-> xs]

ReAlt(xs) == [t |-> "alt", xs |-> xs]

ReGrp(name, x) == [t |-> "grp", name |-> name, x |-> x]

ReRep(x, lo, hi) == [t |-> "rep", x |-> x, lo |-> lo, hi |-> hi, greedy |-> TRUE]

ReLazy(x, lo, hi) == [t |-> "rep", x |-> x, lo |-> lo, hi |-> hi, greedy |-> FALSE]

ReOpt(x) == ReRep(x, 0, 1)

ReStar(x) == ReRep(x, 0, Unbounded)

RePlus(x) == ReRep(x, 1, Unbounded)

ReD == ReSet(DigitChars)

ReS == ReSet(SpaceChars)

NoMatch == [ok |-> FALSE]

IsWordAt(s, i) == i >= 1 /\ i <= Len(s) /\ Char(s, i) \in WordChars

Dec(n) == IF n = Unbounded THEN Unbounded ELSE IF n = 0 THEN 0 ELSE n - 1

\* the nodes that match exactly one character
IsClass(n) == n.t \in {"set", "dot", "any", "nsp"}

ClassHas(n, ch) ==
    CASE n.t = "set" -> ch \in n.s
      [] n.t = "dot" -> ch # "\n"
      [] n.t = "any" -> TRUE
      [] n.t = "nsp" -> ch \notin SpaceChars

\* how many characters of s from position i on are in the class x, at most hi
RunLen(x, s, i, hi) ==
    LET left == Len(s) - i + 1
        cap == IF hi = Unbounded \/ hi > left THEN left ELSE hi
    IN  CHOOSE k \in 0..cap :
            /\ k = cap \/ ~ClassHas(x, Char(s, i + k))
            /\ \A j \in 0..(k - 1) : ClassHas(x, Char(s, i + j))

\* ReFirst(ns, s, i, b, c): the first way, in backtracking order, to match
\* the nodes ns one after another in s from position i on; b is the start
\* of the whole match and c the groups closed so far.  A repetition of a
\* one-character class tries its counts from the longest run down (greedy)
\* or from the shortest up (lazy); ReRepTry walks that order by halves.
RECURSIVE ReFirst(_, _, _, _, _)
RECURSIVE ReAltFrom(_, _, _, _, _, _, _)
RECURSIVE ReRepTry(_, _, _, _, _, _, _, _, _)
ReFirst(ns, s, i, b, c) ==
    IF ns = <<>> THEN [ok |-> TRUE, b |-> b, e |-> i, g |-> c]
    ELSE
    LET n == Head(ns)
        rest == Tail(ns)
    IN
    CASE n.t = "lit" ->
           IF /\ i + Len(n.s) - 1 <= Len(s)
              /\ (IF n.ic THEN LowerChar(Char(s, i)) ELSE Char(s, i)) = n.c
              /\ LET x == SubSeq(s, i, i + Len(n.s) - 1)
                 IN  IF n.ic THEN Lower(x) = n.s ELSE x = n.s
           THEN ReFirst(rest, s, i + Len(n.s), b, c)
           ELSE NoMatch
      [] IsClass(n) ->
           IF i <= Len(s) /\ ClassHas(n, Char(s, i))
           THEN ReFirst(rest, s, i + 1, b, c) ELSE NoMatch
      [] n.t = "bos" ->
           IF i = 1 THEN ReFirst(rest, s, i, b, c) ELSE NoMatch
      [] n.t = "eos" ->
           IF i = Len(s) + 1 \/ (i = Len(s) /\ Char(s, i) = "\n")
           THEN ReFirst(rest, s, i, b, c) ELSE NoMatch
      [] n.t = "bol" ->
           IF i = 1 \/ Char(s, i - 1) = "\n"
           THEN ReFirst(rest, s, i, b, c) ELSE NoMatch
      [] n.t = "eol" ->
           IF i = Len(s) + 1 \/ Char(s, i) = "\n"
           THEN ReFirst(rest, s, i, b, c) ELSE NoMatch
      [] n.t = "wb" ->
           IF IsWordAt(s, i - 1) # IsWordAt(s, i)
           THEN ReFirst(rest, s, i, b, c) ELSE NoMatch
      [] n.t = "seq" -> ReFirst(n.xs \o rest, s, i, b, c)
      [] n.t = "alt" -> ReAltFrom(n.xs, 1, rest, s, i, b, c)
      [] n.t = "grp" ->
           ReFirst(<<n.x, [t |-> "end", name |-> n.name, from |-> i]>> \o rest,
                   s, i, b, c)
      [] n.t = "end" ->
           ReFirst(rest, s, i, b, (n.name :> SubSeq(s, n.from, i - 1)) @@ c)
      [] n.t = "rep" /\ IsClass(n.x) ->
           LET run == RunLen(n.x, s, i, n.hi)
           IN  IF run < n.lo THEN NoMatch
               ELSE ReRepTry(n, run, 0, run - n.lo, rest, s, i, b, c)
      [] n.t = "rep" /\ ~IsClass(n.x) ->
           LET more == IF n.hi = 0 THEN NoMatch
                       ELSE ReFirst(<<n.x, [n EXCEPT !.lo = Dec(n.lo),
                                                     !.hi = Dec(n.hi)]>> \o rest,
                                    s, i, b, c)
               stop == IF n.lo > 0 THEN NoMatch ELSE ReFirst(rest, s, i, b, c)
           IN  IF n.greedy
               THEN (IF more.ok THEN more ELSE stop)
               ELSE (IF stop.ok THEN stop ELSE more)
ReAltFrom(xs, k, rest, s, i, b, c) ==
    IF k > Len(xs) THEN NoMatch
    ELSE LET r == ReFirst(<<xs[k]>> \o rest, s, i, b, c)
         IN  IF r.ok THEN r ELSE ReAltFrom(xs, k + 1, rest, s, i, b, c)
ReRepTry(n, run, pa, pb, rest, s, i, b, c) ==
    IF pa = pb
    THEN ReFirst(rest, s, i + (IF n.greedy THEN run - pa ELSE n.lo + pa), b, c)
    ELSE LET mid == (pa + pb) \div 2
             r == ReRepTry(n, run, pa, mid, rest, s, i, b, c)
         IN  IF r.ok THEN r ELSE ReRepTry(n, run, mid + 1, pb, rest, s, i, b, c)

EmptyGroups == [x \in {} |-> ""]

UpperChar(c) ==
    IF c \in Chars(LowerLetters)
    THEN Char(UpperLetters, CHOOSE j \in 1..26 : Char(LowerLetters, j) = c)
    ELSE c

\* The characters a match of the nodes ns can begin with: [any |-> TRUE]
\* when that is not known to be a finite set, or when the nodes can match
\* the empty string.  Used to skip the start positions where a search cannot
\* succeed.
RECURSIVE FirstOf(_)
RECURSIVE FirstOfAlt(_, _, _)
FirstOf(ns) ==
    IF ns = <<>> THEN [any |-> TRUE, set |-> {}]
    ELSE
    LET n == Head(ns)
        rest == Tail(ns)
    IN
    CASE n.t = "lit" ->
           IF n.s = "" THEN FirstOf(rest)
           ELSE [any |-> FALSE, set |-> IF n.ic THEN {n.c, UpperChar(n.c)} ELSE {n.c}]
      [] n.t = "set" -> [any |-> FALSE, set |-> n.s]
      [] n.t \in {"dot", "any", "nsp"} -> [any |-> TRUE, set |-> {}]
      [] n.t \in {"bos", "eos", "bol", "eol", "wb"} -> FirstOf(rest)
      [] n.t = "seq" -> FirstOf(n.xs \o rest)
      [] n.t = "grp" -> FirstOf(<<n.x>> \o rest)
      [] n.t = "alt" -> FirstOfAlt(n.xs, 1, rest)
      [] n.t = "rep" ->
           LET a == FirstOf(<<n.x>> \o rest)
               z == FirstOf(rest)
           IN  IF n.lo > 0 THEN a
               ELSE [any |-> a.any \/ z.any, set |-> a.set \cup z.set]
FirstOfAlt(xs, k, rest) ==
    IF k > Len(xs) THEN [any |-> FALSE, set |-> {}]
    ELSE LET a == FirstOf(<<xs[k]>> \o rest)
             z == FirstOfAlt(xs, k + 1, rest)
         IN  [any |-> a.any \/ z.any, set |-> a.set \cup z.set]

\* re.compile(pattern)
Compile(re) == [re |-> re, first |-> FirstOf(<<re>>)]

\* pattern.match(s)
ReMatch(p, s) == ReFirst(<<p.re>>, s, 1, 1, EmptyGroups)

\* a match may start at position i
MayStart(p, s, i) == p.first.any \/ (i <= Len(s) /\ Char(s, i) \in p.first.set)

\* the first match that starts at a position of lo..hi, by halves
RECURSIVE ReSearchIn(_, _, _, _)
ReSearchIn(p, s, lo, hi) ==
    IF lo > hi THEN NoMatch
    ELSE IF lo = hi
    THEN (IF MayStart(p, s, lo) THEN ReFirst(<<p.re>>, s, lo, lo, EmptyGroups) ELSE NoMatch)
    ELSE LET mid == (lo + hi) \div 2
             r == ReSearchIn(p, s, lo, mid)
         IN  IF r.ok THEN r ELSE ReSearchIn(p, s, mid + 1, hi)

\* pattern.search(s, from - 1)
ReSearchFrom(p, s, from) == ReSearchIn(p, s, from, Len(s) + 1)

\* re.search(pattern, s)
ReSearch(p, s) == ReSearchFrom(p, s, 1)

\* m.group(0)
Group0(s, m) == SubSeq(s, m.b, m.e - 1)

\* re.findall(pattern, s) for a pattern that cannot match the empty string:
\* the matched texts (group "1" when the pattern has one)
RECURSIVE ReFindAllFrom(_, _, _)
ReFindAllFrom(re, s, from) ==
    LET m == ReSearchFrom(re, s, from)
    IN  IF ~m.ok THEN <<>>
        ELSE <<IF "1" \in DOMAIN m.g THEN m.g["1"] ELSE Group0(s, m)>>
             \o ReFindAllFrom(re, s, m.e)

ReFindAll(re, s) == ReFindAllFrom(re, s, 1)

\* re.sub(pattern, repl, s) for a pattern that cannot match the empty string
RECURSIVE ReSubFrom(_, _, _, _)
ReSubFrom(re, repl, s, from) ==
    LET m == ReSearchFrom(re, s, from)
    IN  IF ~m.ok THEN From(s, from)
        ELSE SubSeq(s, from, m.b - 1) \o repl \o ReSubFrom(re, repl, s, m.e)

ReSub(re, repl, s) == ReSubFrom(re, repl, s, 1)

(***************************************************************************)
(* parser_utils.py: value normalisation                                    *)
(***************************************************************************)
RECURSIVE StrToNat(_)
StrToNat(s) ==
    IF s = "" THEN 0
    ELSE LET d == CHOOSE k \in 0..9 : Char("0123456789", k + 1) = Char(s, Len(s))
         IN  10 * StrToNat(SubSeq(s, 1, Len(s) - 1)) + d

\* The decimal literals float() accepts, as far as they have a value in
\* whole cents: [+-]?(\d+(\.\d{0,2})?|\.\d{1,2}).  Literals with an
\* exponent, with more than two decimals, "inf" and "nan" are not among
\* the modelled inputs.
FloatRe ==
    Compile(ReSeq(<<ReGrp("sign", ReOpt(ReSet({"+", "-"}))),
            ReAlt(<<ReSeq(<<ReGrp("int", RePlus(ReD)),
                            ReOpt(ReSeq(<<ReLit("."), ReGrp("frac", ReRep(ReD, 0, 2))>>))>>),
                    ReSeq(<<ReLit("."), ReGrp("frac", ReRep(ReD, 1, 2))>>)>>),
            ReAtom("eos")>>))

ValueError == [ok |-> FALSE]

\* the value in cents of the literal whose parts the groups g hold
FloatValue(g) ==
    Let([ip |-> IF "int" \in DOMAIN g THEN StrToNat(g["int"]) ELSE 0,
         fs |-> IF "frac" \in DOMAIN g THEN g["frac"] ELSE ""],
        LAMBDA p :
            Let(100 * p.ip + (IF Len(p.fs) = 1 THEN 10 ELSE 1) * StrToNat(p.fs),
                LAMBDA v : IF g["sign"] = "-" THEN 0 - v ELSE v))

\* float(s): the value in cents, or ValueError
PyFloat(s) ==
    Let(ReMatch(FloatRe, Strip(s)),
        LAMBDA m : IF ~m.ok THEN ValueError ELSE [ok |-> TRUE, v |-> FloatValue(m.g)])

\* the thousands separators are left in the text given to float
normalize_amount_KeepCommas(raw) == PyFloat(Strip(Replace(raw, "$", "")))

normalize_amount(raw) == PyFloat(Strip(Replace(Replace(raw, "$", ""), ",", "")))

_money_to_float(s) == PyFloat(Replace(Replace(Strip(s), "$", ""), ",", ""))

Abs(x) == IF x < 0 THEN 0 - x ELSE x

(***************************************************************************)
(* parser_utils.py: parse_date                                             *)
(***************************************************************************)
\* datetime.now().year
CurrentYear == 2026

MonthAbbr == <<"jan", "feb", "mar", "apr", "may", "jun",
               "jul", "aug", "sep", "oct", "nov", "dec">>

\* the formats parse_date tries, built from the directives of strptime as
\* the regular expressions _strptime uses: "%m/%d/%y", "%m/%d/%Y", "%b %d %Y"
Fmt ==
    LET nz == ReSet(DigitChars \ {"0"})
        month == ReGrp("m", ReAlt(<<ReSeq(<<ReLit("1"), ReSet({"0", "1", "2"})>>),
                                    ReSeq(<<ReLit("0"), nz>>),
                                    nz>>))
        day == ReGrp("d", ReAlt(<<ReSeq(<<ReLit("3"), ReSet({"0", "1"})>>),
                                  ReSeq(<<ReSet({"1", "2"}), ReD>>),
                                  ReSeq(<<ReLit("0"), nz>>),
                                  nz,
                                  ReSeq(<<ReLit(" "), nz>>)>>))
        short_year == ReGrp("y", ReRep(ReD, 2, 2))
        long_year == ReGrp("Y", ReRep(ReD, 4, 4))
        month_name == ReGrp("b", ReAlt([k \in 1..12 |-> ReLitI(MonthAbbr[k])]))
    IN  [mdy |-> Compile(ReSeq(<<month, ReLit("/"), day, ReLit("/"), short_year>>)),
         mdY |-> Compile(ReSeq(<<month, ReLit("/"), day, ReLit("/"), long_year>>)),
         bdY |-> Compile(ReSeq(<<month_name, RePlus(ReS), day, RePlus(ReS), long_year>>))]

IsLeap(y) == (y % 4 = 0 /\ y % 100 # 0) \/ y % 400 = 0

DaysIn(y, m) ==
    IF m = 2 THEN (IF IsLeap(y) THEN 29 ELSE 28)
    ELSE IF m \in {4, 6, 9, 11} THEN 30 ELSE 31

NoDate == [ok |-> FALSE]

\* the date of the fields m.g matched by a format, or NoDate for ValueError
StrptimeDate(g) ==
    Let([mo |-> IF "b" \in DOMAIN g
                THEN CHOOSE k \in 1..12 : MonthAbbr[k] = Lower(g["b"])
                ELSE StrToNat(g["m"]),
         dd |-> StrToNat(Strip(g["d"])),
         yy |-> IF "y" \in DOMAIN g
                THEN Let(StrToNat(g["y"]), LAMBDA v : IF v <= 68 THEN 2000 + v ELSE 1900 + v)
                ELSE StrToNat(g["Y"])],
        LAMBDA f : IF f.yy >= 1 /\ f.dd <= DaysIn(f.yy, f.mo)
                   THEN [ok |-> TRUE, y |-> f.yy, m |-> f.mo, d |-> f.dd]
                   ELSE NoDate)

\* datetime.strptime(s, fmt).date(): the date, or NoDate for ValueError
Strptime(s, fmt) ==
    Let(ReMatch(fmt, s),
        LAMBDA m : IF ~m.ok \/ m.e # Len(s) + 1 THEN NoDate ELSE StrptimeDate(m.g))

YearStr == "2026"

\* Python's None
None == [none |-> TRUE]

\* the three attempts of parse_date on the stripped token t, in order
DateTries(t) ==
    Let(Fmt, LAMBDA fmt :
        <<[s |-> t, fmt |-> fmt.mdy],
          [s |-> t \o "/" \o YearStr, fmt |-> fmt.mdY],
          [s |-> t \o " " \o YearStr, fmt |-> fmt.bdY]>>)

\* parse_date(token): the date of the first attempt that succeeds, or None
parse_date(token) ==
    Let(DateTries(Strip(token)),
        LAMBDA tries :
            Let([k \in 1..3 |-> Strptime(tries[k].s, tries[k].fmt)],
                LAMBDA d :
                    IF \E k \in 1..3 : d[k].ok
                    THEN Let(CHOOSE k \in 1..3 : d[k].ok /\ \A j \in 1..(k - 1) : ~d[j].ok,
                             LAMBDA k : [y |-> d[k].y, m |-> d[k].m, d |-> d[k].d])
                    ELSE None))

(***************************************************************************)
(* parser_utils.py: is_transaction_row, detect_bank_type_from_filename     *)
(***************************************************************************)
\* the fragments that the patterns of the source share:
\*   number          [\d,]+\.\d{2}
\*   short_date      \d{1,2}/\d{1,2}
\*   mon_day         [A-Za-z]{3}\s+\d{1,2}
\*   amount          -?\$[\d,]+\.\d{2}
\*   ws              \s*
\*   dollar_num      \$([\d,]+\.\d{2})
\*   opt_dollar_num  \$?([\d,]+\.\d{2})
Frag ==
    LET number == ReSeq(<<RePlus(ReSet(DigitChars \cup {","})), ReLit("."), ReRep(ReD, 2, 2)>>)
    IN  [number |-> number,
         short_date |-> ReSeq(<<ReRep(ReD, 1, 2), ReLit("/"), ReRep(ReD, 1, 2)>>),
         mon_day |-> ReSeq(<<ReRep(ReSet(LetterChars), 3, 3), RePlus(ReS), ReRep(ReD, 1, 2)>>),
         amount |-> ReSeq(<<ReOpt(ReLit("-")), ReLit("$"), number>>),
         ws |-> ReStar(ReS),
         dollar_num |-> ReSeq(<<ReLit("$"), ReGrp("1", number)>>),
         opt_dollar_num |-> ReSeq(<<ReOpt(ReLit("$")), ReGrp("1", number)>>)]

\* \d{1,2}/\d{1,2}.*\$[\d,]+\.\d{2}
TransactionRowRe ==
    Let(Frag, LAMBDA f :
        Compile(ReSeq(<<f.short_date, ReStar(ReAtom("dot")), ReLit("$"), f.number>>)))

\* a "$" amount anywhere on the line is enough, with or without a date
is_transaction_row_AnyAmount(line) ==
    ReSearch(Compile(ReSeq(<<ReLit("$"), Frag.number>>)), line).ok

is_transaction_row(line) == ReSearch(TransactionRowRe, line).ok

\* the patterns searched in the lower-cased name:
\*   amex      {amex_month}.*{amex_month}.*\d{4}
\*   citi      (jan|...|dec)[a-z]*\d{4}
\*   discover  (jan|...|dec)[a-z]*\s+\d{4}
\* with amex_month = (jan|feb|mar|apr|may|jun|jul|aug|sep|sept|oct|nov|dec)
NameRe ==
    LET month ==
            ReAlt(<<ReLit("jan"), ReLit("feb"), ReLit("mar"), ReLit("apr"), ReLit("may"),
                    ReLit("jun"), ReLit("jul"), ReLit("aug"), ReLit("sep"), ReLit("sept"),
                    ReLit("oct"), ReLit("nov"), ReLit("dec")>>)
        lower == ReSet(Chars(LowerLetters))
    IN  [amex |-> Compile(ReSeq(<<month, ReStar(ReAtom("dot")), month, ReStar(ReAtom("dot")), ReRep(ReD, 4, 4)>>)),
         citi |-> Compile(ReSeq(<<month, ReStar(lower), ReRep(ReD, 4, 4)>>)),
         discover |-> Compile(ReSeq(<<month, ReStar(lower), RePlus(ReS), ReRep(ReD, 4, 4)>>))]

IsApple(name) ==
    Contains(name, "apple card") \/ Contains(name, "applecard") \/ Contains(name, "apple_card")

IsAmex(name) ==
    \/ Contains(name, "amex")
    \/ Contains(name, "americanexpress")
    \/ Contains(name, "american_express")
    \/ ReSearch(NameRe.amex, name).ok

IsCapitalOne(name) ==
    Contains(name, "venture") \/ Contains(name, "capitalone") \/ Contains(name, "capital_one")

\* the keywords compared in their capitalised spelling with the lower-cased name
IsBarclays_CaseSensitive(name) ==
    Contains(name, "Barclays") \/ Contains(name, "CreditCardStatement")

IsBarclays(name) == Contains(name, "barclays") \/ Contains(name, "creditcardstatement")

IsBankOfAmerica(name) ==
    Contains(name, "estmt") \/ Contains(name, "bankofamerica") \/ Contains(name, "boa")

IsCiti(name) == ReSearch(NameRe.citi, name).ok

IsDiscover(name) == ReSearch(NameRe.discover, name).ok

\* the checks assign instead of returning, so that the last match wins
detect_bank_type_last_match(card_name) ==
    LET name == Lower(card_name)
    IN  IF IsDiscover(name) THEN "discover"
        ELSE IF IsCiti(name) THEN "citi"
        ELSE IF IsBankOfAmerica(name) THEN "bank_of_america"
        ELSE IF IsBarclays(name) THEN "barclays"
        ELSE IF IsCapitalOne(name) THEN "capital_one"
        ELSE IF IsAmex(name) THEN "amex"
        ELSE IF IsApple(name) THEN "apple"
        ELSE "generic"

detect_bank_type_from_filename(card_name) ==
    LET name == Lower(card_name)
    IN  IF IsApple(name) THEN "apple"
        ELSE IF IsAmex(name) THEN "amex"
        ELSE IF IsCapitalOne(name) THEN "capital_one"
        ELSE IF IsBarclays(name) THEN "barclays"
        ELSE IF IsBankOfAmerica(name) THEN "bank_of_america"
        ELSE IF IsCiti(name) THEN "citi"
        ELSE IF IsDiscover(name) THEN "discover"
        ELSE "generic"

(***************************************************************************)
(* parser.py: the row patterns                                             *)
(***************************************************************************)
CITI_ROW_REGEX ==
    Let(Frag, LAMBDA f :
        Compile(ReSeq(<<ReGrp("trans_date", f.short_date),
                ReLazy(ReAtom("dot"), 0, Unbounded),
                ReGrp("amount", f.amount)>>)))

BOA_ROW_REGEX ==
    Let(Frag, LAMBDA f :
        Compile(ReSeq(<<ReAtom("bos"), ReGrp("trans_date", f.short_date), RePlus(ReS),
                ReGrp("post_date", f.short_date), RePlus(ReS),
                ReGrp("desc", ReLazy(ReAtom("dot"), 1, Unbounded)), RePlus(ReS),
                ReGrp("ref", ReRep(ReD, 3, 4)), RePlus(ReS),
                ReGrp("acct", ReRep(ReD, 4, 4)), RePlus(ReS),
                ReGrp("amount", ReSeq(<<ReOpt(ReLit("-")), ReD,
                                        ReStar(ReSet(DigitChars \cup {","})),
                                        ReLit("."), ReRep(ReD, 2, 2)>>)),
                ReAtom("eos")>>)))

CAPONE_ROW_REGEX ==
    Let(Frag, LAMBDA f :
        Compile(ReSeq(<<ReAtom("bos"), ReGrp("trans_date", f.mon_day), RePlus(ReS),
                ReGrp("post_date", f.mon_day), RePlus(ReS),
                ReGrp("desc", ReLazy(ReAtom("dot"), 1, Unbounded)), RePlus(ReS),
                ReGrp("amount", f.amount), ReAtom("eos")>>)))

BARCLAYS_ROW_REGEX ==
    Let(Frag, LAMBDA f :
        Compile(ReSeq(<<ReAtom("bos"), ReGrp("trans_date", f.mon_day), RePlus(ReS),
                ReGrp("post_date", f.mon_day), RePlus(ReS),
                ReGrp("desc", ReLazy(ReAtom("dot"), 1, Unbounded)), RePlus(ReS),
                ReGrp("points", ReAlt(<<ReLit("N/A"),
                                        ReSeq(<<ReOpt(ReLit("-")), RePlus(ReD)>>)>>)),
                RePlus(ReS),
                ReGrp("amount", f.amount), ReAtom("eos")>>)))

AMEX_ROW_REGEX ==
    Let(Frag, LAMBDA f :
        Compile(ReSeq(<<ReAtom("bos"),
                ReGrp("trans_date", ReSeq(<<f.short_date, ReLit("/"), ReRep(ReD, 2, 2)>>)),
                ReOpt(ReLit("*")), RePlus(ReS),
                ReGrp("desc", ReLazy(ReAtom("dot"), 1, Unbounded)), RePlus(ReS),
                ReGrp("amount", f.amount),
                ReOpt(ReStar(ReAtom("nsp"))), ReAtom("eos")>>)))

CREDIT_KEYWORDS ==
    <<"payment", "credit", "refund", "return", "credit adjustment", "thank you">>

\* the keyword list without "online payment"
STATEMENT_NOISE_KEYWORDS_NoOnline ==
    <<"minimum payment", "payment due", "new balance", "statement balance",
      "account summary", "billing period", "credit limit", "available credit",
      "total fees", "interest charged", "eligible purchases", "eligible payments",
      "mobile payment", "mobile pymt", "payment received",
      "internet payment", "credit adjustment", "points for statement credit",
      "ach deposit">>

STATEMENT_NOISE_KEYWORDS ==
    <<"minimum payment", "payment due", "new balance", "statement balance",
      "account summary", "billing period", "credit limit", "available credit",
      "total fees", "interest charged", "eligible purchases", "eligible payments",
      "online payment", "mobile payment", "mobile pymt", "payment received",
      "internet payment", "credit adjustment", "points for statement credit",
      "ach deposit">>

\* any(k in s for k in keywords)
ContainsAny(s, keywords) == \E k \in 1..Len(keywords) : Contains(s, keywords[k])

(***************************************************************************)
(* parser.py: stitch_wrapped_lines                                         *)
(***************************************************************************)
\* ^(?:\d{1,2}/\d{1,2}(?:/\d{2,4})?|[A-Za-z]{3}\s+\d{1,2})\b
starts_with_date ==
    Let(Frag, LAMBDA f :
        Compile(ReSeq(<<ReAtom("bos"),
                ReAlt(<<ReSeq(<<f.short_date,
                                ReOpt(ReSeq(<<ReLit("/"), ReRep(ReD, 2, 4)>>))>>),
                        f.mon_day>>),
                ReAtom("wb")>>)))

StartsWithDate(line) == ReMatch(starts_with_date, line).ok

has_amount == Compile(Frag.amount)

\* has_amount.search(s)
HasAmount(s) == ReSearch(has_amount, s).ok

\* the date-start line is appended to the prior buffer, which is never reset
StitchStart_KeepPrior(st, line) == [stitched |-> st.stitched, buffer |-> st.buffer \o " " \o line]

\* "If line starts with a date, start a new buffer": the prior buffer is kept
\* only if it contains an amount
StitchStart(st, line) ==
    [stitched |-> IF st.buffer # "" /\ HasAmount(st.buffer)
                  THEN Append(st.stitched, Strip(st.buffer))
                  ELSE st.stitched,
     buffer |-> line]

\* the fragments glued without the separator
StitchAppend_NoSpace(st, line) == [stitched |-> st.stitched, buffer |-> st.buffer \o line]

\* a line that is not a date start is ignored while no buffer has begun
StitchAppend_AwaitStart(st, line) ==
    IF st.buffer = "" THEN st
    ELSE [stitched |-> st.stitched, buffer |-> st.buffer \o " " \o line]

\* else: buffer += " " + line
StitchAppend(st, line) == [stitched |-> st.stitched, buffer |-> st.buffer \o " " \o line]

\* the buffer is emitted and not cleared
StitchFlush_KeepBuffer(st, line) ==
    IF HasAmount(st.buffer) /\ HasAmount(line)
    THEN [stitched |-> Append(st.stitched, Strip(st.buffer)), buffer |-> st.buffer]
    ELSE st

\* the buffer is left to wait for the next date-start line
StitchFlush_Wait(st, line) == st

\* "Finalize if buffer has amount and line looks like it ends a record"
StitchFlush(st, line) ==
    IF HasAmount(st.buffer) /\ HasAmount(line)
    THEN [stitched |-> Append(st.stitched, Strip(st.buffer)), buffer |-> ""]
    ELSE st

\* One pass of the loop body of stitch_wrapped_lines on the state
\* st = [stitched, buffer] and the next input line.
StitchStep(st, rawline) ==
    LET line == Strip(rawline)
    IN  IF line = "" THEN st
        ELSE IF StartsWithDate(line)
        THEN StitchFlush(StitchStart(st, line), line)
        ELSE StitchFlush(StitchAppend(st, line), line)

\* the buffer pending at the end of the input is emitted, with or without an
\* amount
StitchFinish_EmitPending(st) ==
    IF st.buffer # "" THEN Append(st.stitched, Strip(st.buffer)) ELSE st.stitched

\* The statements after the loop: the result of stitch_wrapped_lines
StitchFinish(st) ==
    IF st.buffer # "" /\ HasAmount(st.buffer)
    THEN Append(st.stitched, Strip(st.buffer))
    ELSE st.stitched

RECURSIVE StitchFrom(_, _, _)
StitchFrom(st, lines, k) ==
    IF k > Len(lines) THEN StitchFinish(st)
    ELSE StitchFrom(StitchStep(st, lines[k]), lines, k + 1)

stitch_wrapped_lines(lines) == StitchFrom([stitched |-> <<>>, buffer |-> ""], lines, 1)

(***************************************************************************)
(* parser.py: the loop body of extract_transactions_from_pdf               *)
(***************************************************************************)
\* the three-character marker that the Amex branch removes from a line
\* (not ASCII in the source; written with an ASCII stand-in)
AmexMark == "~"

NoCandidate == [ok |-> FALSE]

Candidate(date, merchant, amount) ==
    [ok |-> TRUE, date |-> date, merchant |-> merchant, amount |-> amount]

CapitalOneRow(line) ==
    Let(ReMatch(CAPONE_ROW_REGEX, line),
        LAMBDA m :
            IF ~m.ok THEN NoCandidate
            ELSE Candidate(parse_date(m.g["trans_date"]), Strip(m.g["desc"]),
                           normalize_amount(m.g["amount"]).v))

BarclaysRow(line) ==
    Let(ReMatch(BARCLAYS_ROW_REGEX, line),
        LAMBDA m :
            IF ~m.ok THEN NoCandidate
            ELSE Candidate(parse_date(m.g["trans_date"]), Strip(m.g["desc"]),
                           normalize_amount(m.g["amount"]).v))

BankOfAmericaRow(line) ==
    Let(ReMatch(BOA_ROW_REGEX, line),
        LAMBDA m :
            IF ~m.ok THEN NoCandidate
            ELSE Candidate(parse_date(m.g["trans_date"]), Strip(m.g["desc"]),
                           PyFloat(Replace(m.g["amount"], ",", "")).v))

\* the two patterns that the Citi branch removes from the line:
\* ^\d{1,2}/\d{1,2} and -?\$[\d,]+\.\d{2}.*$
CitiDescRe ==
    Let(Frag, LAMBDA f :
        [leading_date |-> Compile(ReSeq(<<ReAtom("bos"), f.short_date>>)),
         amount_to_end |-> Compile(ReSeq(<<f.amount, ReStar(ReAtom("dot")), ReAtom("eos")>>))])

CitiRow(line) ==
    Let(CitiDescRe, LAMBDA re :
        Let(ReSearch(CITI_ROW_REGEX, line),
            LAMBDA m :
                IF ~m.ok THEN NoCandidate
                ELSE Candidate(parse_date(m.g["trans_date"]),
                               Strip(ReSub(re.amount_to_end, "",
                                           ReSub(re.leading_date, "", line))),
                               normalize_amount(m.g["amount"]).v)))

AmexRow(line) ==
    Let(ReMatch(AMEX_ROW_REGEX, Strip(Replace(line, AmexMark, ""))),
        LAMBDA m :
            IF ~m.ok THEN NoCandidate
            ELSE Candidate(parse_date(m.g["trans_date"]), Strip(m.g["desc"]),
                           Let(normalize_amount(m.g["amount"]).v,
                               LAMBDA a : IF StartsWith(Strip(m.g["amount"]), "-")
                                          THEN 0 - Abs(a) ELSE a)))

\* the amount is the first "$" amount found on the line, wherever it stands
GenericRow_AmountAnywhere(line) ==
    IF ~is_transaction_row(line) THEN NoCandidate
    ELSE LET parts == SplitWords(line)
             m == ReSearch(Compile(Frag.amount), line)
         IN  Candidate(parse_date(parts[1]),
                       Strip(Join(SubSeq(parts, 2, Len(parts) - 1), " ")),
                       normalize_amount(Group0(line, m)).v)

GenericRow(line) ==
    IF ~is_transaction_row(line) THEN NoCandidate
    ELSE Let(SplitWords(line),
             LAMBDA parts :
                 Let(normalize_amount(parts[Len(parts)]),
                     LAMBDA a :
                         IF ~a.ok THEN NoCandidate
                         ELSE Candidate(parse_date(parts[1]),
                                        Strip(Join(SubSeq(parts, 2, Len(parts) - 1), " ")),
                                        a.v)))

\* the else branch is taken for generic documents alone
RowCandidate_GenericOnly(bank_type, line) ==
    CASE bank_type = "capital_one" -> CapitalOneRow(line)
      [] bank_type = "barclays" -> BarclaysRow(line)
      [] bank_type = "bank_of_america" -> BankOfAmericaRow(line)
      [] bank_type = "citi" -> CitiRow(line)
      [] bank_type = "amex" -> AmexRow(line)
      [] bank_type = "generic" -> GenericRow(line)
      [] OTHER -> NoCandidate

\* the branch of the if/elif chain on bank_type
RowCandidate(bank_type, line) ==
    CASE bank_type = "capital_one" -> CapitalOneRow(line)
      [] bank_type = "barclays" -> BarclaysRow(line)
      [] bank_type = "bank_of_america" -> BankOfAmericaRow(line)
      [] bank_type = "citi" -> CitiRow(line)
      [] bank_type = "amex" -> AmexRow(line)
      [] OTHER -> GenericRow(line)

\* the keywords compared with the description as printed, not lower-cased
IsNoise_CaseSensitive(merchant) == ContainsAny(merchant, STATEMENT_NOISE_KEYWORDS)

\* no description is boilerplate
IsNoise_Never(merchant) == FALSE

\* Drop statement-level noise rows
IsNoise(merchant) == ContainsAny(Lower(merchant), STATEMENT_NOISE_KEYWORDS)

\* the keyword branch labels the record a credit and keeps the amount's sign
Classify_KeepSign(amount, merchant) ==
    IF amount < 0 THEN [transaction_type |-> "credit", amount |-> 0 - Abs(amount)]
    ELSE IF ContainsAny(Lower(merchant), CREDIT_KEYWORDS)
    THEN [transaction_type |-> "credit", amount |-> amount]
    ELSE [transaction_type |-> "spend", amount |-> Abs(amount)]

\* the keyword test comes first and negates the amount as printed
Classify_DoubleNegate(amount, merchant) ==
    IF ContainsAny(Lower(merchant), CREDIT_KEYWORDS)
    THEN [transaction_type |-> "credit", amount |-> 0 - amount]
    ELSE IF amount < 0 THEN [transaction_type |-> "credit", amount |-> amount]
    ELSE [transaction_type |-> "spend", amount |-> amount]

\* Classification: <<transaction_type, amount>>
Classify(amount, merchant) ==
    IF amount < 0 THEN [transaction_type |-> "credit", amount |-> 0 - Abs(amount)]
    ELSE IF ContainsAny(Lower(merchant), CREDIT_KEYWORDS)
    THEN [transaction_type |-> "credit", amount |-> 0 - Abs(amount)]
    ELSE [transaction_type |-> "spend", amount |-> Abs(amount)]

\* the record of a line is put before the records of the lines above it
RowStep_Prepend(rows, bank_type, card_name, line) ==
    LET c == RowCandidate(bank_type, line)
    IN  IF ~c.ok \/ IsNoise(c.merchant) THEN rows
        ELSE LET k == Classify(c.amount, c.merchant)
             IN  <<[date |-> c.date,
                    card |-> card_name,
                    merchant |-> c.merchant,
                    amount |-> k.amount,
                    transaction_type |-> k.transaction_type,
                    bank_type |-> bank_type]>> \o rows

\* a candidate without a date is dropped
RowStep_RequireDate(rows, bank_type, card_name, line) ==
    LET c == RowCandidate(bank_type, line)
    IN  IF ~c.ok \/ IsNoise(c.merchant) \/ c.date = None THEN rows
        ELSE LET k == Classify(c.amount, c.merchant)
             IN  Append(rows, [date |-> c.date,
                               card |-> card_name,
                               merchant |-> c.merchant,
                               amount |-> k.amount,
                               transaction_type |-> k.transaction_type,
                               bank_type |-> bank_type])

\* One pass of "for line in lines": the rows after the pass
RowStep(rows, bank_type, card_name, line) ==
    Let(RowCandidate(bank_type, line),
        LAMBDA c :
            IF ~c.ok THEN rows
            ELSE IF IsNoise(c.merchant) THEN rows
            ELSE Let(Classify(c.amount, c.merchant),
                     LAMBDA k : Append(rows, [date |-> c.date,
                                              card |-> card_name,
                                              merchant |-> c.merchant,
                                              amount |-> k.amount,
                                              transaction_type |-> k.transaction_type,
                                              bank_type |-> bank_type])))

(***************************************************************************)
(* Summary extraction (parser.py, parser_utils.py)                         *)
(***************************************************************************)
\* an amount that was found, as opposed to None
Some(x) == [v |-> x]

\* normalize_amount(m.group(1)) of a search under re.IGNORECASE, or None
FirstAmount(re, text) ==
    LET m == ReSearch(re, text)
    IN  IF m.ok THEN Some(normalize_amount(m.g["1"]).v) ELSE None

balance_patterns ==
    Let(Frag, LAMBDA f :
        <<Compile(ReSeq(<<ReLitI("New Balance"), f.ws, ReLit("="), f.ws, f.dollar_num>>)),
          Compile(ReSeq(<<ReLitI("New Balance"), f.ws, ReLit("\n"), f.ws, f.dollar_num>>)),
          Compile(ReSeq(<<ReAlt(<<ReLitI("New Balance"),
                                  ReSeq(<<ReLitI("Statement Balance"),
                                          ReOpt(ReSeq(<<ReLitI(" as of"), ReStar(ReAtom("dot"))>>))>>),
                                  ReLitI("New Balance Total")>>),
                          f.ws, f.dollar_num>>))>>)

\* the loop over balance_patterns: the first pattern that matches decides
RECURSIVE BalanceFrom(_, _)
BalanceFrom(text, k) ==
    IF k > Len(balance_patterns) THEN None
    ELSE LET b == FirstAmount(balance_patterns[k], text)
         IN  IF b # None THEN b ELSE BalanceFrom(text, k + 1)

AllBanksBalance(text) == BalanceFrom(text, 1)

ValueOr(x, default) == IF x = None THEN default ELSE x.v

\* purchases  \bPurchases\b\s*\+?\s*\$?\s*([\d,]+\.\d{2})
\* payments   Payments.*?\$([\d,]+\.\d{2})
\* credits    Other Credits.*?\$([\d,]+\.\d{2})
BarclaysRe ==
    Let(Frag, LAMBDA f :
        [purchases |-> Compile(ReSeq(<<ReAtom("wb"), ReLitI("Purchases"), ReAtom("wb"), f.ws, ReOpt(ReLit("+")),
                                       f.ws, ReOpt(ReLit("$")), f.ws, ReGrp("1", f.number)>>)),
         payments |-> Compile(ReSeq(<<ReLitI("Payments"), ReLazy(ReAtom("dot"), 0, Unbounded), f.dollar_num>>)),
         credits |-> Compile(ReSeq(<<ReLitI("Other Credits"), ReLazy(ReAtom("dot"), 0, Unbounded),
                                     f.dollar_num>>))])

extract_barclays_summary(text) ==
    Let(BarclaysRe, LAMBDA re :
        LET purchases == FirstAmount(re.purchases, text)
            payments == FirstAmount(re.payments, text)
            credits == FirstAmount(re.credits, text)
        IN  [spend_total |-> Some(ValueOr(purchases, 0)),
             payments_credits_total |-> Some(ValueOr(payments, 0) + ValueOr(credits, 0))])

\* transactions  Transactions\s*\+\s*\$([\d,]+\.\d{2})
\* payments      Payments\s+-\s*\$([\d,]+\.\d{2})
\* credits       Other Credits\s+\$([\d,]+\.\d{2})
CapOneRe ==
    Let(Frag, LAMBDA f :
        [transactions |-> Compile(ReSeq(<<ReLitI("Transactions"), f.ws, ReLit("+"), f.ws,
                                          f.dollar_num>>)),
         payments |-> Compile(ReSeq(<<ReLitI("Payments"), RePlus(ReS), ReLit("-"), f.ws,
                                      f.dollar_num>>)),
         credits |-> Compile(ReSeq(<<ReLitI("Other Credits"), RePlus(ReS), f.dollar_num>>))])

extract_capital_one_transactions_total(text) == FirstAmount(CapOneRe.transactions, text)

extract_capital_one_payments_and_credits(first_page_text) ==
    Let(CapOneRe, LAMBDA re :
        LET payments == FirstAmount(re.payments, first_page_text)
            credits == FirstAmount(re.credits, first_page_text)
        IN  Some(ValueOr(payments, 0) + ValueOr(credits, 0)))

\* purchases  Purchases\s*\+?\$([\d,]+\.\d{2})
\* payments   -\s*\$([\d,]+\.\d{2})
\* balance    New\s*Balance\s*:?\s*\$([\d,]+\.\d{2})
DiscoverRe ==
    Let(Frag, LAMBDA f :
        [purchases |-> Compile(ReSeq(<<ReLitI("Purchases"), f.ws, ReOpt(ReLit("+")), f.dollar_num>>)),
         payments |-> Compile(ReSeq(<<ReLit("-"), f.ws, f.dollar_num>>)),
         balance |-> Compile(ReSeq(<<ReLitI("New"), f.ws, ReLitI("Balance"), f.ws,
                                     ReOpt(ReLit(":")), f.ws, f.dollar_num>>))])

\* matches[0] of re.findall is the group of the first match
extract_discover_summary(text) ==
    Let(DiscoverRe, LAMBDA re :
        [spend_total |-> FirstAmount(re.purchases, text),
         payments_credits_total |-> FirstAmount(re.payments, text)])

extract_discover_statement_balance(text) == FirstAmount(DiscoverRe.balance, text)

\* payments   Payments\s*-\$([\d,]+\.\d{2})
\* credits    Credits\s*-\$([\d,]+\.\d{2})
\* purchases  Purchases\s*\+\$([\d,]+\.\d{2})
CitiRe ==
    Let(Frag, LAMBDA f :
        [payments |-> Compile(ReSeq(<<ReLitI("Payments"), f.ws, ReLit("-"), f.dollar_num>>)),
         credits |-> Compile(ReSeq(<<ReLitI("Credits"), f.ws, ReLit("-"), f.dollar_num>>)),
         purchases |-> Compile(ReSeq(<<ReLitI("Purchases"), f.ws, ReLit("+"), f.dollar_num>>))])

extract_citi_summary(text) ==
    Let(CitiRe, LAMBDA re :
        LET payments == FirstAmount(re.payments, text)
            credits == FirstAmount(re.credits, text)
            purchases == FirstAmount(re.purchases, text)
        IN  [spend_total |-> purchases,
             payments_credits_total |->
                 IF payments # None \/ credits # None
                 THEN Some(ValueOr(payments, 0) + ValueOr(credits, 0))
                 ELSE None])

\* purchases  Purchases and Adjustments\s*\$([\d,]+\.\d{2})
\* payments   Payments and Other Credits\s*-\$([\d,]+\.\d{2})
BoaRe ==
    Let(Frag, LAMBDA f :
        [purchases |-> Compile(ReSeq(<<ReLitI("Purchases and Adjustments"), f.ws, f.dollar_num>>)),
         payments |-> Compile(ReSeq(<<ReLitI("Payments and Other Credits"), f.ws, ReLit("-"),
                                      f.dollar_num>>))])

extract_bank_of_america_summary(text) ==
    Let(BoaRe, LAMBDA re :
        [spend_total |-> FirstAmount(re.purchases, text),
         payments_credits_total |-> FirstAmount(re.payments, text)])

\* [ \t]+
BlanksRe == Compile(RePlus(ReSet({" ", "\t"})))

\* re.sub(r"[ \t]+", " ", text) followed by re.sub(r"\r", "\n", .)
NormalizeSpace(text) == Replace(ReSub(BlanksRe, " ", text), "\r", "\n")

\* _money_to_float(m.group(1)) of a search, or None
FirstMoney(re, t) ==
    LET m == ReSearch(re, t)
    IN  IF m.ok THEN Some(_money_to_float(m.g["1"]).v) ELSE None

\* the second result when there is one
OrElse_SecondFirst(x, y) == IF y # None THEN y ELSE x

\* the first result that is not None
OrElse(x, y) == IF x # None THEN x ELSE y

\* balance        Pay Over Time and/or Cash Advance.*?New Balance\s*=\s*\$?([\d,]+\.\d{2})
\* balance2       \bNew Balance\b\s*\$?([\d,]+\.\d{2})
\* payments       Pay Over Time and/or Cash Advance.*?Payments/Credits\s*-\s*\$?([\d,]+\.\d{2})
\* payments2      Account Total.*?Payments/Credits\s*-\s*\$?([\d,]+\.\d{2})
\* charges        Account Total.*?New Charges\s*\+?\s*\$?\s*([\d,]+\.\d{2})
\* charges_line   ^.*Total New Charges.*$ under re.MULTILINE
\* dollar_amount  \$[\d,]+\.\d{2}
\* the first five under re.DOTALL
AmexRe ==
    Let(Frag, LAMBDA f :
        LET cash_advance == ReLitI("Pay Over Time and/or Cash Advance")
            account_total == ReLitI("Account Total")
            gap == ReLazy(ReAtom("any"), 0, Unbounded)
        IN  [balance |-> Compile(ReSeq(<<cash_advance, gap, ReLitI("New Balance"),
                                         f.ws, ReLit("="), f.ws, f.opt_dollar_num>>)),
             balance2 |-> Compile(ReSeq(<<ReAtom("wb"), ReLitI("New Balance"), ReAtom("wb"), f.ws, f.opt_dollar_num>>)),
             payments |-> Compile(ReSeq(<<cash_advance, gap, ReLitI("Payments/Credits"),
                                          f.ws, ReLit("-"), f.ws, f.opt_dollar_num>>)),
             payments2 |-> Compile(ReSeq(<<account_total, gap, ReLitI("Payments/Credits"),
                                           f.ws, ReLit("-"), f.ws, f.opt_dollar_num>>)),
             charges |-> Compile(ReSeq(<<account_total, gap, ReLitI("New Charges"),
                                         f.ws, ReOpt(ReLit("+")), f.ws, ReOpt(ReLit("$")), f.ws,
                                         ReGrp("1", f.number)>>)),
             charges_line |-> Compile(ReSeq(<<ReAtom("bol"), ReStar(ReAtom("dot")), ReLitI("Total New Charges"),
                                              ReStar(ReAtom("dot")), ReAtom("eol")>>)),
             dollar_amount |-> Compile(ReSeq(<<ReLit("$"), f.number>>))])

\* the fallback for spend_total: the last dollar amount on the line
AmexLastOnLine(t) ==
    Let(AmexRe, LAMBDA re :
        LET m2 == ReSearch(re.charges_line, t)
        IN  IF ~m2.ok THEN None
            ELSE LET amounts == ReFindAll(re.dollar_amount, Group0(t, m2))
                 IN  IF amounts = <<>> THEN None
                     ELSE Some(_money_to_float(amounts[Len(amounts)]).v))

extract_amex_summary(text) ==
    Let(AmexRe, LAMBDA re :
        IF text = ""
        THEN [statement_balance |-> None, payments_credits_total |-> None, spend_total |-> None]
        ELSE
        LET t == NormalizeSpace(text)
        IN  [statement_balance |-> OrElse(FirstMoney(re.balance, t), FirstMoney(re.balance2, t)),
             payments_credits_total |->
                 OrElse(FirstMoney(re.payments, t), FirstMoney(re.payments2, t)),
             spend_total |-> OrElse(FirstMoney(re.charges, t), AmexLastOnLine(t))])

\* balance   (?im)^\s*Total Balance\s*\$([\d,]+\.\d{2})\s*$
\* payments  (?im)^Total payments for this period\s+-?\$([\d,]+\.\d{2})\s*$
\* spend     (?im)^Total charges, credits and returns\s+\$([\d,]+\.\d{2})\s*$
AppleRe ==
    Let(Frag, LAMBDA f :
        [balance |-> Compile(ReSeq(<<ReAtom("bol"), f.ws, ReLitI("Total Balance"), f.ws, f.dollar_num,
                                     f.ws, ReAtom("eol")>>)),
         payments |-> Compile(ReSeq(<<ReAtom("bol"), ReLitI("Total payments for this period"), RePlus(ReS),
                                      ReOpt(ReLit("-")), f.dollar_num, f.ws, ReAtom("eol")>>)),
         spend |-> Compile(ReSeq(<<ReAtom("bol"), ReLitI("Total charges, credits and returns"), RePlus(ReS),
                                   f.dollar_num, f.ws, ReAtom("eol")>>))])

\* pdf.pages is a sequence of page texts
extract_apple_statement_balance(pages) ==
    IF Len(pages) = 0 THEN None
    ELSE IF Strip(pages[1]) = "" THEN None
    ELSE FirstMoney(AppleRe.balance, NormalizeSpace(pages[1]))

extract_apple_total_payments(pages) ==
    IF Len(pages) = 0 THEN None
    ELSE LET m == ReSearch(AppleRe.payments, NormalizeSpace(Join(pages, "\n")))
         IN  IF ~m.ok THEN None ELSE Some(PyFloat(Replace(m.g["1"], ",", "")).v)

extract_apple_total_spend(pages) ==
    IF Len(pages) = 0 THEN None
    ELSE LET m == ReSearch(AppleRe.spend, NormalizeSpace(Join(pages, "\n")))
         IN  IF ~m.ok THEN None ELSE Some(PyFloat(Replace(m.g["1"], ",", "")).v)

\* the branch on bank_type after the rows: the summary values, each an
\* amount or None; statement_balance is the value of the all-banks patterns
SummaryFor(bank_type, text, pages, statement_balance) ==
    CASE bank_type = "barclays" ->
           LET r == extract_barclays_summary(text)
           IN  [statement_balance |-> statement_balance,
                payments_credits_total |-> r.payments_credits_total,
                spend_total |-> r.spend_total]
      [] bank_type = "capital_one" ->
           [statement_balance |-> statement_balance,
            payments_credits_total |-> extract_capital_one_payments_and_credits(pages[1]),
            spend_total |-> extract_capital_one_transactions_total(text)]
      [] bank_type = "discover" ->
           LET r == extract_discover_summary(text)
           IN  [statement_balance |-> extract_discover_statement_balance(text),
                payments_credits_total |-> r.payments_credits_total,
                spend_total |-> r.spend_total]
      [] bank_type = "citi" ->
           LET r == extract_citi_summary(text)
           IN  [statement_balance |-> statement_balance,
                payments_credits_total |-> r.payments_credits_total,
                spend_total |-> r.spend_total]
      [] bank_type = "bank_of_america" ->
           LET r == extract_bank_of_america_summary(text)
           IN  [statement_balance |-> statement_balance,
                payments_credits_total |-> r.payments_credits_total,
                spend_total |-> r.spend_total]
      [] bank_type = "amex" -> extract_amex_summary(text)
      [] bank_type = "apple" ->
           [statement_balance |-> extract_apple_statement_balance(pages),
            payments_credits_total |-> extract_apple_total_payments(pages),
            spend_total |-> extract_apple_total_spend(pages)]
      [] OTHER ->
           [statement_balance |-> statement_balance,
            payments_credits_total |-> None,
            spend_total |-> None]

\* df[df["transaction_type"] == kind]["amount"].sum()
RECURSIVE SumOfKind(_, _)
SumOfKind(rows, kind) ==
    IF rows = <<>> THEN 0
    ELSE (IF Head(rows).transaction_type = kind THEN Head(rows).amount ELSE 0)
         + SumOfKind(Tail(rows), kind)

\* the total is always computed from the rows
ReconcileSpend_FromRows(spend_total, rows) == Some(SumOfKind(rows, "spend"))

\* If summary extraction returned None (or wasn't run), calculate from rows
ReconcileSpend(spend_total, rows) ==
    IF spend_total = None THEN Some(SumOfKind(rows, "spend")) ELSE spend_total

\* a missing total of the payments/credits is returned as it is
ReconcilePayments_KeepNone(payments_credits_total, rows) == payments_credits_total

ReconcilePayments(payments_credits_total, rows) ==
    IF payments_credits_total = None
    THEN Some(Abs(SumOfKind(rows, "credit")))
    ELSE payments_credits_total

\* [l.strip() for l in text.split("\n") if l.strip()]
RECURSIVE StripAll(_)
StripAll(ls) ==
    IF ls = <<>> THEN <<>>
    ELSE (IF Strip(Head(ls)) = "" THEN <<>> ELSE <<Strip(Head(ls))>>) \o StripAll(Tail(ls))

RawLines(text) == StripAll(Split(text, "\n"))

\* the rows after "for line in lines" from the k-th line on
RECURSIVE RowsFrom(_, _, _, _, _)
RowsFrom(rows, bank_type, card_name, lines, k) ==
    IF k > Len(lines) THEN rows
    ELSE RowsFrom(RowStep(rows, bank_type, card_name, lines[k]), bank_type, card_name,
                  lines, k + 1)

\* extract_transactions_from_pdf(pdf_file, card_name) as one function of the
\* label and the pages: what the call returns, or that it raises
ParseAlone(label, doc) ==
    LET text == Join(doc, "\n")
        bank_type == detect_bank_type_from_filename(label)
        raw_lines == RawLines(text)
        lines == IF bank_type \in {"citi", "amex"}
                 THEN stitch_wrapped_lines(raw_lines)
                 ELSE raw_lines
        rows == RowsFrom(<<>>, bank_type, label, lines, 1)
    IN  IF bank_type = "capital_one" /\ Len(doc) = 0 THEN [raised |-> TRUE]
        ELSE LET r == SummaryFor(bank_type, text, doc, AllBanksBalance(text))
             IN  [raised |-> FALSE,
                  rows |-> rows,
                  statement_balance |-> r.statement_balance,
                  payments_credits_total |-> ReconcilePayments(r.payments_credits_total, rows),
                  spend_total |-> ReconcileSpend(r.spend_total, rows),
                  bank_type |-> bank_type]

(***************************************************************************)
(* The inputs: statement documents and their labels                        *)
(***************************************************************************)
\* the longest document, in lines
MaxLines == 2

\* one label for each issuer tag
Labels ==
    {"Apple Card", "amex_stmt", "CapitalOne_Venture_Statement.pdf",
     "Barclays_CreditCardStatement_Jan2024.pdf", "eStmt_2024-01-15",
     "Statement_Jan2024", "Statement Jan 2024", "mycard"}

\* rows in the date-description-amount layout, which the generic rule (used
\* for generic, discover and apple) reads: a purchase, a card payment, a row
\* without a description, a zero amount, a refund, a negative amount
PlainRows ==
    {"01/15 STARBUCKS #123 $5.25",
     "02/02 ONLINE PAYMENT THANK YOU -$200.00",
     "01/15 $5.25",
     "01/20 AUTOPAY $0.00",
     "01/22 AMZN REFUND $7.00",
     "01/25 UBER -$3.00"}

\* the transaction rows of a statement of each issuer, in its layout
RowLinesOf ==
    [apple |-> PlainRows,
     discover |-> PlainRows,
     generic |-> PlainRows,
     citi |-> {"01/15 STARBUCKS #123 $5.25",
               "02/02 ONLINE PAYMENT THANK YOU -$200.00",
               "01/15 $5.25",
               "01/20 AUTOPAY $0.00",
               "01/22 AMZN REFUND $7.00",
               "03/14 UBER TRIP",
               "SAN FRANCISCO -$12.34"},
     amex |-> {"01/02/24 COFFEE SHOP $5.25",
               "01/06/24 ONLINE PAYMENT THANK YOU -$200.00",
               "01/08/24 7 $5.25",
               "01/05/24 AUTOPAY $0.00",
               "01/03/24* AMZN REFUND $7.00",
               "01/07/24 UBER TRIP",
               "SAN FRANCISCO -$12.34~"},
     capital_one |-> {"Jan 02 Jan 03 COFFEE SHOP $5.25",
                      "Jan 10 Jan 11 ONLINE PAYMENT THANK YOU -$200.00",
                      "Jan 12 Jan 13 7 $5.25",
                      "Jan 08 Jan 09 AUTOPAY $0.00",
                      "Jan 04 Jan 05 AMZN REFUND $7.00",
                      "Jan 06 Jan 07 UBER -$3.00"},
     barclays |-> {"Jan 02 Jan 03 COFFEE SHOP 5 $5.25",
                   "Jan 10 Jan 11 ONLINE PAYMENT THANK YOU N/A -$200.00",
                   "Jan 12 Jan 13 7 5 $5.25",
                   "Jan 08 Jan 09 AUTOPAY 0 $0.00",
                   "Jan 04 Jan 05 AMZN REFUND -7 $7.00",
                   "Jan 06 Jan 07 UBER N/A -$3.00"},
     bank_of_america |-> {"01/02 01/03 COFFEE SHOP 1234 5678 5.25",
                          "01/10 01/11 ONLINE PAYMENT THANK YOU 1234 5678 -200.00",
                          "01/12 01/13 7 1234 5678 5.25",
                          "01/08 01/09 AUTOPAY 123 5678 0.00",
                          "01/04 01/05 AMZN REFUND 1234 5678 7.00",
                          "01/06 01/07 UBER 1234 5678 -3.00"}]

\* a purchase, a refund and the lines of the account summary of each
\* issuer: balance, total purchases, total payments
SummaryLinesOf ==
    [apple |-> {"01/15 STARBUCKS #123 $5.25",
                "01/22 AMZN REFUND $7.00",
                "Total Balance $767.74",
                "Total charges, credits and returns $636.18",
                "Total payments for this period -$869.39"},
     discover |-> {"01/15 STARBUCKS #123 $5.25",
                   "01/22 AMZN REFUND $7.00",
                   "New Balance: $612.08",
                   "Purchases +$636.18",
                   "Payments and Credits -$869.39"},
     generic |-> {"01/15 STARBUCKS #123 $5.25",
                  "01/22 AMZN REFUND $7.00",
                  "New Balance $612.08",
                  "Purchases +$636.18",
                  "Payments -$869.39"},
     citi |-> {"01/15 STARBUCKS #123 $5.25",
               "01/22 AMZN REFUND $7.00",
               "New Balance $612.08",
               "Purchases +$636.18",
               "Payments -$869.39"},
     amex |-> {"01/02/24 COFFEE SHOP $5.25",
               "01/03/24* AMZN REFUND $7.00",
               "New Balance $612.08",
               "Account Total New Charges +$636.18",
               "Account Total Payments/Credits -$869.39"},
     capital_one |-> {"Jan 02 Jan 03 COFFEE SHOP $5.25",
                      "Jan 04 Jan 05 AMZN REFUND $7.00",
                      "New Balance = $612.08",
                      "Transactions + $636.18",
                      "Payments - $869.39"},
     barclays |-> {"Jan 02 Jan 03 COFFEE SHOP 5 $5.25",
                   "Jan 04 Jan 05 AMZN REFUND -7 $7.00",
                   "Statement Balance as of 01/31/24 $612.08",
                   "Purchases +$636.18",
                   "Payments -$869.39"},
     bank_of_america |-> {"01/02 01/03 COFFEE SHOP 1234 5678 5.25",
                          "01/04 01/05 AMZN REFUND 1234 5678 7.00",
                          "New Balance Total $612.08",
                          "Purchases and Adjustments $636.18",
                          "Payments and Other Credits -$869.39"}]

\* the longest input of stitch_wrapped_lines, in lines
MaxStitch == 3

\* physical lines for stitch_wrapped_lines: a date-start line without an
\* amount, a continuation with an amount, a date-start line with an amount,
\* a continuation without an amount, a Mon DD start, a blank line, a padded
\* line with an amount, and the two halves of an amount cut at the point
StitchLines ==
    {"03/14 UBER TRIP",
     "SAN FRANCISCO $12.34",
     "03/15 LYFT $8.00",
     "REF 20002",
     "Mar 16 SHOP",
     "  ",
     " TOTAL $9.99 ",
     "HOLD $12",
     ".34 FEE"}

\* physical lines of a page as pdfplumber returns them: the two halves of a
\* wrapped row, a padded row, a line of blanks, a row whose date follows a
\* word, and the balance as Capital One prints it
PageLines ==
    {"03/14 UBER TRIP",
     "SAN FRANCISCO -$12.34",
     " 01/15 STARBUCKS #123 $5.25 ",
     "   ",
     "PENDING 01/15 SHOP $5.25",
     "New Balance = $612.08"}

\* lines of the summary of an Amex statement: for each field a line that the
\* primary pattern reads and a line that the secondary pattern reads, with
\* different amounts, and a total line without an amount
AmexSummaryLines ==
    {"Pay Over Time and/or Cash Advance New Balance = $612.08",
     "New Balance $700.00",
     "Pay Over Time and/or Cash Advance Payments/Credits -$869.39",
     "Account Total Payments/Credits -$881.44",
     "Account Total New Charges +$636.18",
     "Total New Charges $12.05 $624.13 $640.00",
     "Total New Charges"}

\* the longest label, in fragments
MaxNameParts == 3

\* fragments of statement file names
NameParts ==
    {"Apple Card", "AMEX", "Venture", "Barclays_", "CreditCardStatement",
     "eStmt", "Jan", "2024", " "}

\* the sequences of at most n elements of S
SeqsUpTo(S, n) == UNION {[1..k -> S] : k \in 0..n}

\* pdf.pages, as the texts of the pages, of the documents made of lines of
\* S: a file without pages, an empty page, one page of at most MaxLines
\* lines, or two pages of one line each
DocsFrom(S) ==
    {<<>>} \cup {<<Join(ls, "\n")>> : ls \in SeqsUpTo(S, MaxLines)}
           \cup {<<a, b>> : a \in S, b \in S}

\* labels: the file names made of at most MaxNameParts fragments, and two
\* file names of real statements
DetectLabels ==
    {"CapitalOne_Venture_Statement.pdf", "Barclays_CreditCardStatement_Jan2024.pdf"}
        \cup {Join(ps, "") : ps \in SeqsUpTo(NameParts, MaxNameParts)}

\* the most groups of thousands in an amount token
MaxGroups == 1

\* the amount tokens -?$?N(,NNN)*.NN with at most MaxGroups groups of
\* thousands; in cents they stay below 2^31, also with one group more
AmountTokens ==
    LET ints == {h \o Join(gs, "") : h \in {"0", "1", "7", "12"},
                                     gs \in SeqsUpTo({",234", ",000"}, MaxGroups)}
    IN  {sign \o dollar \o int \o "." \o frac :
            sign \in {"", "-"}, dollar \in {"", "$"}, int \in ints,
            frac \in {"00", "05", "56"}}

\* the calls made together: a label and a document each.  A generic
\* statement, a wrapped Citi row, a Capital One file without pages, a Capital
\* One page with a total, a Discover summary and an Amex row.
BatchInputs ==
    {[label |-> "mycard",
      doc |-> <<"01/15 STARBUCKS #123 $5.25\n01/22 AMZN REFUND $7.00">>],
     [label |-> "Statement_Jan2024",
      doc |-> <<"03/14 UBER TRIP\nSAN FRANCISCO -$12.34">>],
     [label |-> "CapitalOne_Venture_Statement.pdf",
      doc |-> <<>>],
     [label |-> "CapitalOne_Venture_Statement.pdf",
      doc |-> <<"Jan 02 Jan 03 COFFEE SHOP $5.25\nPayments - $869.39">>],
     [label |-> "Statement Jan 2024",
      doc |-> <<"New Balance: $612.08\nPurchases +$636.18">>],
     [label |-> "amex_stmt",
      doc |-> <<"01/02/24 COFFEE SHOP $5.25">>]}

\* the longest list of lines given to the row loop alone
MaxRows == 2

\* lines for the row loop alone.  For the generic rule: purchases, payments,
\* a refund, a negative amount, a Mon DD date, an amount before the date,
\* text after the amount, no date, no "$", boilerplate, thousands separators, a last
\* token without "$", an impossible date, a date with a year, a first token
\* that is not the date.  For Capital One: a purchase
\* and a row dated Feb 30.
RowLoopLines ==
    [generic |-> {"01/15 STARBUCKS #123 $5.25",
                  "02/02 ONLINE PAYMENT THANK YOU -$200.00",
                  "02/03 PAYMENT THANK YOU -$200.00",
                  "01/22 AMZN REFUND $7.00",
                  "01/25 UBER -$3.00",
                  "Jan 15 STARBUCKS $5.25",
                  "$5.25 01/15 STARBUCKS",
                  "01/15 STARBUCKS $5.25 pending",
                  "COFFEE $5.25",
                  "01/15 COFFEE 5.25",
                  "01/31 NEW BALANCE $612.08",
                  "01/30 Minimum Payment Due $25.00",
                  "01/16 LAPTOP -$1,234.56",
                  "01/18 TEA $12.00",
                  "01/17 COFFEE $5.25 1,234.56",
                  "02/30 GYM $30.00",
                  "01/15/24 GYM $30.00",
                  "REF 01/15 GYM $30.00"},
     capital_one |-> {"Jan 02 Jan 03 COFFEE SHOP $5.25",
                      "Feb 30 Mar 01 GYM $30.00"}]

(***************************************************************************)
(* extract_transactions_from_pdf as a state machine                        *)
(***************************************************************************)
VARIABLES
    pc,                      \* the statement reached
    card_name,               \* argument: the label
    pages,                   \* pdf.pages: the text of each page
    text,
    bank_type,
    statement_balance,
    raw_lines,
    si,                      \* stitch_wrapped_lines: index of the next line
    stitched,                \* stitch_wrapped_lines: stitched
    buffer,                  \* stitch_wrapped_lines: buffer
    lines,
    ri,                      \* index of the next line of "for line in lines"
    rows,
    payments_credits_total,
    spend_total,
    other                    \* the locals of a second call in progress, or None

vars == <<pc, card_name, pages, text, bank_type, statement_balance, raw_lines,
          si, stitched, buffer, lines, ri, rows, payments_credits_total, spend_total,
          other>>

\* the locals of extract_transactions_from_pdf on entry
Entry(label, doc) ==
    /\ pc = "open"
    /\ card_name = label
    /\ pages = doc
    /\ text = ""
    /\ bank_type = ""
    /\ statement_balance = None
    /\ raw_lines = <<>>
    /\ si = 1
    /\ stitched = <<>>
    /\ buffer = ""
    /\ lines = <<>>
    /\ ri = 1
    /\ rows = <<>>
    /\ payments_credits_total = Some(0)
    /\ spend_total = None
    /\ other = None

\* the locals of a call on entry, as a record
EntryFrame(label, doc) ==
    [pc |-> "open", card_name |-> label, pages |-> doc, text |-> "", bank_type |-> "",
     statement_balance |-> None, raw_lines |-> <<>>, si |-> 1, stitched |-> <<>>,
     buffer |-> "", lines |-> <<>>, ri |-> 1, rows |-> <<>>,
     payments_credits_total |-> Some(0), spend_total |-> None]

\* two calls on entry: one is running, the other waits
InitBatch ==
    \E a \in BatchInputs, b \in BatchInputs :
        /\ pc = "open"
        /\ card_name = a.label
        /\ pages = a.doc
        /\ text = ""
        /\ bank_type = ""
        /\ statement_balance = None
        /\ raw_lines = <<>>
        /\ si = 1
        /\ stitched = <<>>
        /\ buffer = ""
        /\ lines = <<>>
        /\ ri = 1
        /\ rows = <<>>
        /\ payments_credits_total = Some(0)
        /\ spend_total = None
        /\ other = EntryFrame(b.label, b.doc)

\* statements made of transaction rows
Init ==
    \E label \in Labels :
        \E doc \in DocsFrom(RowLinesOf[detect_bank_type_from_filename(label)]) :
            Entry(label, doc)

\* statements with an account summary
InitSummary ==
    \E label \in Labels :
        \E doc \in DocsFrom(SummaryLinesOf[detect_bank_type_from_filename(label)]) :
            Entry(label, doc)

\* stitch_wrapped_lines(lines) on entry, called for a citi statement
InitStitch ==
    \E ls \in SeqsUpTo(StitchLines, MaxStitch) :
        /\ pc = "stitch"
        /\ card_name = "Statement_Jan2024"
        /\ pages = <<Join(ls, "\n")>>
        /\ text = Join(ls, "\n")
        /\ bank_type = "citi"
        /\ statement_balance = None
        /\ raw_lines = ls
        /\ si = 1
        /\ stitched = <<>>
        /\ buffer = ""
        /\ lines = <<>>
        /\ ri = 1
        /\ rows = <<>>
        /\ payments_credits_total = Some(0)
        /\ spend_total = None
        /\ other = None

\* one-page statements of every issuer with padded, blank and wrapped lines
InitLines ==
    \E label \in Labels :
        \E ls \in SeqsUpTo(PageLines, MaxLines) :
            Entry(label, <<Join(ls, "\n")>>)

\* one-page Amex statements made of summary lines
InitAmex ==
    \E ls \in SeqsUpTo(AmexSummaryLines, MaxLines) :
        Entry("amex_stmt", <<Join(ls, "\n")>>)

\* file names, of a file without pages
InitDetect == \E label \in DetectLabels : Entry(label, <<>>)

\* the row loop on entry, for a one-page document of a generic or a
\* Capital One statement, which are not stitched: lines = raw_lines
InitRows ==
    \E label \in {"mycard", "CapitalOne_Venture_Statement.pdf"} :
        \E ls \in SeqsUpTo(RowLoopLines[detect_bank_type_from_filename(label)], MaxRows) :
            /\ pc = "rows"
            /\ card_name = label
            /\ pages = <<Join(ls, "\n")>>
            /\ text = Join(ls, "\n")
            /\ bank_type = detect_bank_type_from_filename(label)
            /\ statement_balance = AllBanksBalance(Join(ls, "\n"))
            /\ raw_lines = ls
            /\ si = 1
            /\ stitched = <<>>
            /\ buffer = ""
            /\ lines = ls
            /\ ri = 1
            /\ rows = <<>>
            /\ payments_credits_total = Some(0)
            /\ spend_total = None
            /\ other = None

\* the row loop on entry, for a generic statement of one line that ends with
\* an amount token; a token without "$" stands after an amount with "$",
\* without which the line is no candidate
InitAmounts ==
    \E tok \in AmountTokens :
        LET line == IF Contains(tok, "$") THEN "01/15 SHOP " \o tok
                    ELSE "01/15 SHOP $1.00 " \o tok
        IN  /\ pc = "rows"
            /\ card_name = "mycard"
            /\ pages = <<line>>
            /\ text = line
            /\ bank_type = detect_bank_type_from_filename("mycard")
            /\ statement_balance = AllBanksBalance(line)
            /\ raw_lines = <<line>>
            /\ si = 1
            /\ stitched = <<>>
            /\ buffer = ""
            /\ lines = <<line>>
            /\ ri = 1
            /\ rows = <<>>
            /\ payments_credits_total = Some(0)
            /\ spend_total = None
            /\ other = None

\* with pdfplumber.open(...): text = "\n".join(...); bank_type = detect...(card_name)
Open ==
    /\ pc = "open"
    /\ text' = Join(pages, "\n")
    /\ bank_type' = detect_bank_type_from_filename(card_name)
    /\ pc' = "balance"
    /\ UNCHANGED <<other, card_name, pages, statement_balance, raw_lines, si, stitched,
                   buffer, lines, ri, rows, payments_credits_total, spend_total>>

\* Statement balance (all banks)
Balance ==
    /\ pc = "balance"
    /\ statement_balance' = AllBanksBalance(text)
    /\ pc' = "split"
    /\ UNCHANGED <<other, card_name, pages, text, bank_type, raw_lines, si, stitched,
                   buffer, lines, ri, rows, payments_credits_total, spend_total>>

\* the lines of every issuer go through stitch_wrapped_lines
SplitLines_StitchAll ==
    /\ pc = "split"
    /\ raw_lines' = RawLines(text)
    /\ pc' = "stitch"
    /\ si' = 1
    /\ stitched' = <<>>
    /\ buffer' = ""
    /\ lines' = lines
    /\ UNCHANGED <<other, card_name, pages, text, bank_type, statement_balance, ri, rows,
                   payments_credits_total, spend_total>>

\* raw_lines = [...]; the choice between stitching and raw_lines
SplitLines ==
    /\ pc = "split"
    /\ raw_lines' = RawLines(text)
    /\ IF bank_type \in {"citi", "amex"}
       THEN /\ pc' = "stitch"
            /\ si' = 1
            /\ stitched' = <<>>
            /\ buffer' = ""
            /\ lines' = lines
       ELSE /\ pc' = "rows"
            /\ lines' = RawLines(text)
            /\ UNCHANGED <<si, stitched, buffer>>
    /\ UNCHANGED <<other, card_name, pages, text, bank_type, statement_balance, ri, rows,
                   payments_credits_total, spend_total>>

\* stitch_wrapped_lines: one pass of "for line in lines"
StitchLine ==
    /\ pc = "stitch"
    /\ si <= Len(raw_lines)
    /\ LET st == StitchStep([stitched |-> stitched, buffer |-> buffer], raw_lines[si])
       IN  /\ stitched' = st.stitched
           /\ buffer' = st.buffer
    /\ si' = si + 1
    /\ UNCHANGED <<other, pc, card_name, pages, text, bank_type, statement_balance, raw_lines,
                   lines, ri, rows, payments_credits_total, spend_total>>

\* stitch_wrapped_lines: the end of the loop and the return
StitchReturn ==
    /\ pc = "stitch"
    /\ si > Len(raw_lines)
    /\ lines' = StitchFinish([stitched |-> stitched, buffer |-> buffer])
    /\ pc' = "rows"
    /\ UNCHANGED <<other, card_name, pages, text, bank_type, statement_balance, raw_lines,
                   si, stitched, buffer, ri, rows, payments_credits_total, spend_total>>

\* one pass of "for line in lines"
Row ==
    /\ pc = "rows"
    /\ ri <= Len(lines)
    /\ rows' = RowStep(rows, bank_type, card_name, lines[ri])
    /\ ri' = ri + 1
    /\ UNCHANGED <<other, pc, card_name, pages, text, bank_type, statement_balance, raw_lines,
                   si, stitched, buffer, lines, payments_credits_total, spend_total>>

\* after the loop: "Ensure row parsing never contributes to totals"
RowsDone ==
    /\ pc = "rows"
    /\ ri > Len(lines)
    /\ payments_credits_total' = None
    /\ spend_total' = None
    /\ pc' = "summary"
    /\ UNCHANGED <<other, card_name, pages, text, bank_type, statement_balance, raw_lines,
                   si, stitched, buffer, lines, ri, rows>>

\* SUMMARY-BASED TOTALS; pdf.pages[0] of a file without pages raises IndexError
Summary ==
    /\ pc = "summary"
    /\ IF bank_type = "capital_one" /\ Len(pages) = 0
       THEN /\ pc' = "raised"
            /\ spend_total' = extract_capital_one_transactions_total(text)
            /\ UNCHANGED <<statement_balance, payments_credits_total>>
       ELSE LET r == SummaryFor(bank_type, text, pages, statement_balance)
            IN  /\ statement_balance' = r.statement_balance
                /\ payments_credits_total' = r.payments_credits_total
                /\ spend_total' = r.spend_total
                /\ pc' = "reconcile"
    /\ UNCHANGED <<other, card_name, pages, text, bank_type, raw_lines, si, stitched, buffer,
                   lines, ri, rows>>

\* "If summary extraction returned None (or wasn't run), calculate from
\* rows", then the result is returned
Reconcile ==
    /\ pc = "reconcile"
    /\ spend_total' = ReconcileSpend(spend_total, rows)
    /\ payments_credits_total' = ReconcilePayments(payments_credits_total, rows)
    /\ pc' = "done"
    /\ UNCHANGED <<other, card_name, pages, text, bank_type, statement_balance, raw_lines,
                   si, stitched, buffer, lines, ri, rows>>

\* the two calls change places and the records stay where they are, as if
\* rows were one list of the module
Switch_SharedRows ==
    /\ other # None
    /\ pc' = other.pc
    /\ card_name' = other.card_name
    /\ pages' = other.pages
    /\ text' = other.text
    /\ bank_type' = other.bank_type
    /\ statement_balance' = other.statement_balance
    /\ raw_lines' = other.raw_lines
    /\ si' = other.si
    /\ stitched' = other.stitched
    /\ buffer' = other.buffer
    /\ lines' = other.lines
    /\ ri' = other.ri
    /\ rows' = rows
    /\ payments_credits_total' = other.payments_credits_total
    /\ spend_total' = other.spend_total
    /\ other' = [pc |-> pc, card_name |-> card_name, pages |-> pages, text |-> text,
                 bank_type |-> bank_type, statement_balance |-> statement_balance,
                 raw_lines |-> raw_lines, si |-> si, stitched |-> stitched,
                 buffer |-> buffer, lines |-> lines, ri |-> ri, rows |-> rows,
                 payments_credits_total |-> payments_credits_total,
                 spend_total |-> spend_total]

\* the scheduler gives the turn to the other call: every name of the function
\* is a local of the call, so each call goes on with its own values
Switch ==
    /\ other # None
    /\ pc' = other.pc
    /\ card_name' = other.card_name
    /\ pages' = other.pages
    /\ text' = other.text
    /\ bank_type' = other.bank_type
    /\ statement_balance' = other.statement_balance
    /\ raw_lines' = other.raw_lines
    /\ si' = other.si
    /\ stitched' = other.stitched
    /\ buffer' = other.buffer
    /\ lines' = other.lines
    /\ ri' = other.ri
    /\ rows' = other.rows
    /\ payments_credits_total' = other.payments_credits_total
    /\ spend_total' = other.spend_total
    /\ other' = [pc |-> pc, card_name |-> card_name, pages |-> pages, text |-> text,
                 bank_type |-> bank_type, statement_balance |-> statement_balance,
                 raw_lines |-> raw_lines, si |-> si, stitched |-> stitched,
                 buffer |-> buffer, lines |-> lines, ri |-> ri, rows |-> rows,
                 payments_credits_total |-> payments_credits_total,
                 spend_total |-> spend_total]

Next ==
    \/ Open
    \/ Balance
    \/ SplitLines
    \/ StitchLine
    \/ StitchReturn
    \/ Row
    \/ RowsDone
    \/ Summary
    \/ Reconcile

Spec == Init /\ [][Next]_vars

SpecSummary == InitSummary /\ [][Next]_vars

\* stitch_wrapped_lines alone
NextStitch ==
    \/ StitchLine
    \/ StitchReturn

SpecStitch == InitStitch /\ [][NextStitch]_vars

\* detect_bank_type_from_filename alone
NextDetect == Open

SpecDetect == InitDetect /\ [][NextDetect]_vars

\* the whole call on pages with padded, blank and wrapped lines
SpecLines == InitLines /\ [][Next]_vars

\* the whole call on Amex summaries
SpecAmex == InitAmex /\ [][Next]_vars

\* the row loop and what follows it
NextRows ==
    \/ Row
    \/ RowsDone
    \/ Summary
    \/ Reconcile

SpecRows == InitRows /\ [][NextRows]_vars

\* the row loop on lines that end with an amount token
SpecAmounts == InitAmounts /\ [][NextRows]_vars

\* two calls of extract_transactions_from_pdf, interleaved at will
NextBatch ==
    \/ Open
    \/ Balance
    \/ SplitLines
    \/ StitchLine
    \/ StitchReturn
    \/ Row
    \/ RowsDone
    \/ Summary
    \/ Reconcile
    \/ Switch

SpecBatch == InitBatch /\ [][NextBatch]_vars

TypeOK == pc \in {"open", "balance", "split", "stitch", "rows", "summary",
                  "reconcile", "done", "raised"}

(***************************************************************************)
(* Properties                                                              *)
(***************************************************************************)
\* the issuer tags
Tags == {"apple", "amex", "capital_one", "barclays", "bank_of_america", "citi",
         "discover", "generic"}

\* whether a pattern of the issuer's total purchases matches the document
PurchasesMatch(bt, txt, pgs) ==
    CASE bt = "barclays" -> ReSearch(BarclaysRe.purchases, txt).ok
      [] bt = "capital_one" -> ReSearch(CapOneRe.transactions, txt).ok
      [] bt = "discover" -> ReSearch(DiscoverRe.purchases, txt).ok
      [] bt = "citi" -> ReSearch(CitiRe.purchases, txt).ok
      [] bt = "bank_of_america" -> ReSearch(BoaRe.purchases, txt).ok
      [] bt = "amex" ->
           \/ ReSearch(AmexRe.charges, NormalizeSpace(txt)).ok
           \/ ReSearch(AmexRe.charges_line, NormalizeSpace(txt)).ok
      [] bt = "apple" -> ReSearch(AppleRe.spend, NormalizeSpace(Join(pgs, "\n"))).ok
      [] OTHER -> FALSE

\* whether a pattern of the issuer's total payments/credits matches the document
PaymentsMatch(bt, txt, pgs) ==
    CASE bt = "barclays" ->
           ReSearch(BarclaysRe.payments, txt).ok \/ ReSearch(BarclaysRe.credits, txt).ok
      [] bt = "capital_one" ->
           /\ Len(pgs) > 0
           /\ ReSearch(CapOneRe.payments, pgs[1]).ok \/ ReSearch(CapOneRe.credits, pgs[1]).ok
      [] bt = "discover" -> ReSearch(DiscoverRe.payments, txt).ok
      [] bt = "citi" -> ReSearch(CitiRe.payments, txt).ok \/ ReSearch(CitiRe.credits, txt).ok
      [] bt = "bank_of_america" -> ReSearch(BoaRe.payments, txt).ok
      [] bt = "amex" ->
           \/ ReSearch(AmexRe.payments, NormalizeSpace(txt)).ok
           \/ ReSearch(AmexRe.payments2, NormalizeSpace(txt)).ok
      [] bt = "apple" -> ReSearch(AppleRe.payments, NormalizeSpace(Join(pgs, "\n"))).ok
      [] OTHER -> FALSE

\* C1 as stated: every emitted record is a credit exactly when its amount
\* is <= 0, so no spend record has the amount 0.
C1_CreditIffNonPositive ==
    \A i \in 1..Len(rows) :
        (rows[i].transaction_type = "credit") <=> (rows[i].amount <= 0)

\* C1, amended: every emitted record is a credit or a spend; a credit has an
\* amount <= 0 and a spend has an amount >= 0, so that a negative amount is
\* always a credit and a positive amount always a spend.
C1_SignMatchesKind ==
    \A i \in 1..Len(rows) :
        /\ rows[i].transaction_type \in {"credit", "spend"}
        /\ rows[i].transaction_type = "credit" => rows[i].amount <= 0
        /\ rows[i].transaction_type = "spend" => rows[i].amount >= 0

\* a refund printed with a positive amount was made a negative credit, next
\* to a purchase
C1_Witness ==
    /\ pc = "done"
    /\ \E i, j \in 1..Len(rows) :
        /\ rows[i].merchant = "AMZN REFUND"
        /\ rows[i].transaction_type = "credit"
        /\ rows[i].amount = -700
        /\ rows[j].transaction_type = "spend"
        /\ rows[j].amount = 525

\* C2: reconciliation precedence. Whenever the summary extraction of the
\* detected issuer yields a value for the statement balance, the total
\* payments/credits or the total purchases, the returned field is that value,
\* whatever the records sum to.
C2_ExtractedTakesPrecedence ==
    pc = "done" =>
        LET e == SummaryFor(bank_type, text, pages, AllBanksBalance(text))
        IN  /\ e.statement_balance # None => statement_balance = e.statement_balance
            /\ e.payments_credits_total # None =>
                   payments_credits_total = e.payments_credits_total
            /\ e.spend_total # None => spend_total = e.spend_total

\* the purchases of the summary, 636.18, are returned for a statement whose
\* only spend record is 5.25
C2_Witness ==
    /\ pc = "done"
    /\ spend_total = Some(63618)
    /\ SumOfKind(rows, "spend") = 525

\* C3: missing-summary fallback. For every issuer, when no pattern of the
\* total purchases (resp. of the total payments/credits) matches the
\* document, the extracted field is null and the returned total is the sum
\* of the spend records (resp. the absolute value of the sum of the credit
\* records).
C3_FallbackWhenNoSummary ==
    /\ pc = "reconcile" =>
        /\ ~PurchasesMatch(bank_type, text, pages) => spend_total = None
        /\ ~PaymentsMatch(bank_type, text, pages) => payments_credits_total = None
    /\ pc = "done" =>
        /\ ~PurchasesMatch(bank_type, text, pages) =>
               spend_total = Some(SumOfKind(rows, "spend"))
        /\ ~PaymentsMatch(bank_type, text, pages) =>
               payments_credits_total = Some(Abs(SumOfKind(rows, "credit")))

\* C4: stitching. A line that starts with a date and has no amount, followed
\* by a line that does not start with a date and has one amount, gives
\* exactly one logical line: the two fragments joined by one space, in input
\* order, with exactly one amount.
C4_WrappedPairIsOneLine ==
    /\ (pc = "stitch" /\ si >= 3) =>
        LET a == Strip(raw_lines[si - 2])
            b == Strip(raw_lines[si - 1])
        IN  (/\ StartsWithDate(a) /\ ~HasAmount(a)
             /\ b # "" /\ ~StartsWithDate(b)
             /\ Len(ReFindAll(has_amount, b)) = 1) =>
                /\ buffer = ""
                /\ stitched # <<>>
                /\ stitched[Len(stitched)] = a \o " " \o b
                /\ Len(ReFindAll(has_amount, stitched[Len(stitched)])) = 1
    /\ (pc = "rows" /\ Len(raw_lines) = 2) =>
        LET a == Strip(raw_lines[1])
            b == Strip(raw_lines[2])
        IN  (/\ StartsWithDate(a) /\ ~HasAmount(a)
             /\ b # "" /\ ~StartsWithDate(b)
             /\ Len(ReFindAll(has_amount, b)) = 1) =>
                lines = <<a \o " " \o b>>

\* the two lines of the example were stitched into one
C4_Witness ==
    /\ pc = "rows"
    /\ raw_lines = <<"03/14 UBER TRIP", "SAN FRANCISCO $12.34">>
    /\ lines = <<"03/14 UBER TRIP SAN FRANCISCO $12.34">>

\* C5: immediate flush. In every pass of the stitcher, if the buffer with
\* the line just appended contains an amount and that line contains an
\* amount, the buffer is emitted in that pass and the buffer is empty after it.
C5_ImmediateFlush ==
    [][(pc = "stitch" /\ si <= Len(raw_lines)) =>
        LET line == Strip(raw_lines[si])
            buf == IF StartsWithDate(line) THEN line ELSE buffer \o " " \o line
        IN  (line # "" /\ HasAmount(buf) /\ HasAmount(line)) =>
                /\ buffer' = ""
                /\ Len(stitched') = Len(stitched) + 1
                /\ stitched'[Len(stitched')] = Strip(buf)]_vars

\* a wrapped record was emitted while input lines are still to come
C5_Witness ==
    /\ pc = "stitch"
    /\ si = 3
    /\ si <= Len(raw_lines)
    /\ ~HasAmount(raw_lines[1])
    /\ HasAmount(raw_lines[2])
    /\ buffer = ""
    /\ Len(stitched) = 1

\* C6: new-record rule. In a pass on a line that starts with a date, a prior
\* non-empty buffer is emitted first if it contains an amount and is
\* otherwise dropped, and the new buffer is the date-start line alone (which
\* is emitted at once, alone, when it contains an amount).
C6_NewRecordOnDateStart ==
    [][(pc = "stitch" /\ si <= Len(raw_lines)) =>
        LET line == Strip(raw_lines[si])
            kept == IF buffer # "" /\ HasAmount(buffer)
                    THEN Append(stitched, Strip(buffer))
                    ELSE stitched
        IN  (line # "" /\ StartsWithDate(line)) =>
                IF HasAmount(line)
                THEN stitched' = Append(kept, line) /\ buffer' = ""
                ELSE stitched' = kept /\ buffer' = line]_vars

\* an incomplete record was dropped by the date-start line that followed it
C6_Witness ==
    /\ pc = "stitch"
    /\ si = 3
    /\ raw_lines[1] = "03/14 UBER TRIP"
    /\ raw_lines[2] = "Mar 16 SHOP"
    /\ buffer = "Mar 16 SHOP"
    /\ stitched = <<>>

\* C7: detection is total and the first match wins. The tag is one of the
\* eight tags, and it is the tag of the first predicate, in the order apple,
\* amex, capital_one, barclays, bank_of_america, citi, discover, that the
\* lower-cased label satisfies, and generic when it satisfies none.
C7_FirstMatchWins ==
    pc # "open" =>
        LET name == Lower(card_name)
        IN  /\ bank_type \in Tags
            /\ bank_type = "apple" <=> IsApple(name)
            /\ bank_type = "amex" <=> ~IsApple(name) /\ IsAmex(name)
            /\ bank_type = "capital_one" <=>
                   ~IsApple(name) /\ ~IsAmex(name) /\ IsCapitalOne(name)
            /\ bank_type = "barclays" <=>
                   /\ ~IsApple(name) /\ ~IsAmex(name) /\ ~IsCapitalOne(name)
                   /\ IsBarclays(name)
            /\ bank_type = "bank_of_america" <=>
                   /\ ~IsApple(name) /\ ~IsAmex(name) /\ ~IsCapitalOne(name)
                   /\ ~IsBarclays(name) /\ IsBankOfAmerica(name)
            /\ bank_type = "citi" <=>
                   /\ ~IsApple(name) /\ ~IsAmex(name) /\ ~IsCapitalOne(name)
                   /\ ~IsBarclays(name) /\ ~IsBankOfAmerica(name) /\ IsCiti(name)
            /\ bank_type = "discover" <=>
                   /\ ~IsApple(name) /\ ~IsAmex(name) /\ ~IsCapitalOne(name)
                   /\ ~IsBarclays(name) /\ ~IsBankOfAmerica(name) /\ ~IsCiti(name)
                   /\ IsDiscover(name)
            /\ bank_type = "generic" <=>
                   /\ ~IsApple(name) /\ ~IsAmex(name) /\ ~IsCapitalOne(name)
                   /\ ~IsBarclays(name) /\ ~IsBankOfAmerica(name) /\ ~IsCiti(name)
                   /\ ~IsDiscover(name)

\* a label that satisfies three predicates got the tag of the first of them
C7_Witness ==
    /\ pc = "balance"
    /\ IsAmex(Lower(card_name))
    /\ IsCapitalOne(Lower(card_name))
    /\ IsBarclays(Lower(card_name))
    /\ bank_type = "amex"

\* C8: overlapping predicates. "CapitalOne_Venture_Statement.pdf" detects as
\* capital_one; "Barclays_CreditCardStatement_Jan2024.pdf" detects as
\* barclays although it satisfies the citi predicate; every label that
\* satisfies the barclays and the citi predicates and none of the apple,
\* amex and capital_one predicates detects as barclays.
C8_BarclaysBeforeCiti ==
    pc # "open" =>
        LET name == Lower(card_name)
        IN  /\ card_name = "CapitalOne_Venture_Statement.pdf" => bank_type = "capital_one"
            /\ card_name = "Barclays_CreditCardStatement_Jan2024.pdf" =>
                   IsCiti(name) /\ bank_type = "barclays"
            /\ (/\ IsBarclays(name) /\ IsCiti(name)
                /\ ~IsApple(name) /\ ~IsAmex(name) /\ ~IsCapitalOne(name)) =>
                   bank_type = "barclays"

\* the Barclays file name, which has a month and a year, was detected
C8_Witness ==
    /\ pc = "balance"
    /\ card_name = "Barclays_CreditCardStatement_Jan2024.pdf"
    /\ IsCiti(Lower(card_name))
    /\ bank_type = "barclays"

C10_NoInvalidMerchant ==
    \A i \in 1..Len(rows) :
        LET m == Strip(rows[i].merchant)
        IN  /\ Len(m) >= 3
            /\ \E k \in 1..Len(m) : Char(m, k) \in LetterChars

\* C11: classification rule. In every pass of the row loop on a line that
\* gives a candidate which survives the boilerplate filter, with amount a and
\* description d, exactly one record is appended; it is a credit of amount
\* -|a| if a < 0 or d contains, whatever the case, one of payment, credit,
\* refund, return, credit adjustment, thank you, and otherwise a spend of
\* amount |a|. The magnitude is |a|, and a negative a stays a.
C11_ClassificationRule ==
    [][(pc = "rows" /\ ri <= Len(lines)) =>
        LET c == RowCandidate(bank_type, lines[ri])
            creditLike ==
                \/ c.amount < 0
                \/ \E k \in {"payment", "credit", "refund", "return",
                              "credit adjustment", "thank you"} :
                       Contains(Lower(c.merchant), k)
            r == rows'[Len(rows')]
        IN  (c.ok /\ ~IsNoise(c.merchant)) =>
                /\ Len(rows') = Len(rows) + 1
                /\ SubSeq(rows', 1, Len(rows)) = rows
                /\ r.merchant = c.merchant
                /\ r.transaction_type = IF creditLike THEN "credit" ELSE "spend"
                /\ r.amount = IF creditLike THEN 0 - Abs(c.amount) ELSE Abs(c.amount)
                /\ Abs(r.amount) = Abs(c.amount)
                /\ c.amount < 0 => r.amount = c.amount]_vars

\* a payment printed with a negative amount and credit keywords was recorded
\* as a credit of the same negative amount, after a purchase
C11_Witness ==
    /\ pc = "rows"
    /\ ri = 3
    /\ lines = <<"01/15 STARBUCKS #123 $5.25", "02/03 PAYMENT THANK YOU -$200.00">>
    /\ Len(rows) = 2
    /\ rows[1].transaction_type = "spend"
    /\ rows[1].amount = 525
    /\ rows[2].merchant = "PAYMENT THANK YOU"
    /\ rows[2].transaction_type = "credit"
    /\ rows[2].amount = -20000

\* C12 as stated: the line "02/02 ONLINE PAYMENT THANK YOU -$200.00" yields
\* one record, a credit of -200.00, which is not counted in the computed
\* total purchases.
C12_OnlinePaymentIsOneCredit ==
    (pc = "done" /\ lines = <<"02/02 ONLINE PAYMENT THANK YOU -$200.00">>) =>
        /\ Len(rows) = 1
        /\ rows[1].transaction_type = "credit"
        /\ rows[1].amount = -20000
        /\ spend_total = Some(0)

\* C12, amended: the pass of the row loop on the line
\* "02/02 ONLINE PAYMENT THANK YOU -$200.00" appends no record; the pass on
\* "02/03 PAYMENT THANK YOU -$200.00" appends exactly one record, a credit of
\* -200.00; and when the totals are computed from the records of a generic
\* statement made of such lines, the total purchases count neither line,
\* and the total payments/credits count 200.00 for each record.
C12_OnlinePaymentIsDropped ==
    [][/\ (pc = "rows" /\ ri <= Len(lines)
           /\ lines[ri] = "02/02 ONLINE PAYMENT THANK YOU -$200.00") =>
              rows' = rows
       /\ (pc = "rows" /\ ri <= Len(lines)
           /\ lines[ri] = "02/03 PAYMENT THANK YOU -$200.00") =>
              /\ Len(rows') = Len(rows) + 1
              /\ SubSeq(rows', 1, Len(rows)) = rows
              /\ rows'[Len(rows')].merchant = "PAYMENT THANK YOU"
              /\ rows'[Len(rows')].transaction_type = "credit"
              /\ rows'[Len(rows')].amount = -20000
       /\ (pc = "reconcile" /\ bank_type = "generic" /\ lines # <<>>
           /\ \A i \in 1..Len(lines) :
                  lines[i] \in {"02/02 ONLINE PAYMENT THANK YOU -$200.00",
                                "02/03 PAYMENT THANK YOU -$200.00"}) =>
              /\ spend_total' = Some(0)
              /\ payments_credits_total' = Some(20000 * Len(rows))]_vars

\* the online payment gave no record and the payment after it gave one
\* credit, counted in the payments/credits and not in the purchases
C12_Witness ==
    /\ pc = "done"
    /\ lines = <<"02/02 ONLINE PAYMENT THANK YOU -$200.00",
                 "02/03 PAYMENT THANK YOU -$200.00">>
    /\ Len(rows) = 1
    /\ rows[1].merchant = "PAYMENT THANK YOU"
    /\ rows[1].amount = -20000
    /\ spend_total = Some(0)
    /\ payments_credits_total = Some(20000)

C15_NoExceptionEscapes == pc # "raised"

C17_NoBoilerplateRecord ==
    [][LET keywords == {"minimum payment", "payment due", "new balance",
                        "statement balance", "account summary", "billing period",
                        "credit limit", "available credit", "total fees",
                        "interest charged", "eligible purchases", "eligible payments",
                        "online payment", "mobile payment", "mobile pymt",
                        "payment received", "internet payment", "credit adjustment",
                        "points for statement credit", "ach deposit"}
           Boilerplate(d) == \E k \in keywords : Contains(Lower(d), k)
       IN  /\ \A i \in 1..Len(rows') : ~Boilerplate(rows'[i].merchant)
           /\ (pc = "rows" /\ ri <= Len(lines)) =>
                LET c == RowCandidate(bank_type, lines[ri])
                IN  (c.ok /\ Boilerplate(c.merchant)) =>
                        /\ rows' = rows
                        /\ pc' = "rows"
                        /\ ri' = ri + 1]_vars

\* the line "NEW BALANCE" gave no record and the purchase after it gave one
C17_Witness ==
    /\ pc = "rows"
    /\ ri = 3
    /\ lines = <<"01/31 NEW BALANCE $612.08", "01/15 STARBUCKS #123 $5.25">>
    /\ RowCandidate(bank_type, lines[1]).ok
    /\ Len(rows) = 1
    /\ rows[1].merchant = "STARBUCKS #123"

C19_NullDateKeepsRecord ==
    [][(pc = "rows" /\ ri <= Len(lines)) =>
        LET line == lines[ri]
            parts == SplitWords(line)
            t == parts[1]
            tries == <<Strptime(t, Fmt.mdy),
                       Strptime(t \o "/" \o YearStr, Fmt.mdY),
                       Strptime(t \o " " \o YearStr, Fmt.bdY)>>
            succeeded == {k \in 1..3 : tries[k].ok}
            first == CHOOSE k \in succeeded : \A j \in succeeded : k <= j
            r == rows'[Len(rows')]
            dated == RowStep(<<>>, bank_type, card_name,
                             "01/15" \o SubSeq(line, Len(t) + 1, Len(line)))
        IN  /\ (bank_type = "generic" /\ rows' # rows) =>
                r.date = IF succeeded = {} THEN None
                         ELSE [y |-> tries[first].y, m |-> tries[first].m, d |-> tries[first].d]
            /\ (bank_type = "generic" /\ RowCandidate(bank_type, line).ok
                /\ ~IsNoise(RowCandidate(bank_type, line).merchant)
                /\ succeeded = {}) =>
                /\ Len(rows') = Len(rows) + 1
                /\ r.date = None
                /\ Len(dated) = 1
                /\ dated[1].date = [y |-> CurrentYear, m |-> 1, d |-> 15]
                /\ r = [dated[1] EXCEPT !.date = None]
            /\ (rows' # rows /\ t = "01/15/24") => r.date = [y |-> 2024, m |-> 1, d |-> 15]
            /\ (rows' # rows /\ t = "01/15") => r.date = [y |-> CurrentYear, m |-> 1, d |-> 15]
            /\ (line = "Jan 02 Jan 03 COFFEE SHOP $5.25" /\ bank_type = "capital_one") =>
                /\ Len(rows') = Len(rows) + 1
                /\ r.date = [y |-> CurrentYear, m |-> 1, d |-> 2]
            /\ (line = "Feb 30 Mar 01 GYM $30.00" /\ bank_type = "capital_one") =>
                /\ Len(rows') = Len(rows) + 1
                /\ r.date = None
                /\ r.merchant = "GYM" /\ r.amount = 3000 /\ r.transaction_type = "spend"
            /\ (line \in {"02/30 GYM $30.00", "REF 01/15 GYM $30.00"} /\ bank_type = "generic") =>
                /\ Len(rows') = Len(rows) + 1
                /\ r.date = None
                /\ r.amount = 3000 /\ r.transaction_type = "spend"]_vars

\* the line dated "02/30" gave a record without a date, which is otherwise
\* the record of the dated line after it
C19_Witness ==
    /\ pc = "rows"
    /\ ri = 3
    /\ lines = <<"02/30 GYM $30.00", "01/15/24 GYM $30.00">>
    /\ Len(rows) = 2
    /\ rows[1].date = None
    /\ rows[2].date = [y |-> 2024, m |-> 1, d |-> 15]
    /\ rows[1] = [rows[2] EXCEPT !.date = None]
    /\ rows[1].merchant = "GYM"
    /\ rows[1].amount = 3000
    /\ rows[1].transaction_type = "spend"

C21_StitchOnlyCitiAmex ==
    LET ls == Split(text, "\n")
        kept == {i \in 1..Len(ls) : Strip(ls[i]) # ""}
        nth(k) == CHOOSE i \in kept : Cardinality({j \in kept : j < i}) = k - 1
        trimmed == [k \in 1..Cardinality(kept) |-> Strip(ls[nth(k)])]
    IN  pc \in {"rows", "summary", "reconcile", "done"} =>
            /\ bank_type \notin {"citi", "amex"} => lines = trimmed
            /\ bank_type \in {"citi", "amex"} => lines = stitch_wrapped_lines(trimmed)

\* a Discover statement keeps the two halves of a wrapped row apart
C21_Witness ==
    /\ pc = "rows"
    /\ bank_type = "discover"
    /\ lines = <<"03/14 UBER TRIP", "SAN FRANCISCO -$12.34">>

\* C22: record production. A pass of the row loop appends exactly one record
\* at the end of the records when its line matches the row pattern of the
\* issuer (for the generic rule: a date at the start, a "$" amount, and a last
\* token that converts) and its description holds no statement keyword, and
\* leaves the records as they are for any other line, so that the records
\* are in the order of their lines; the record carries the tag that the
\* detector returns for the label and the label itself, and the tag of the
\* result is that tag.
C22_OneRecordPerAcceptedLine ==
    [][(pc = "rows" /\ ri <= Len(lines)) =>
        LET line == lines[ri]
            Matches ==
                CASE bank_type = "capital_one" -> ReMatch(CAPONE_ROW_REGEX, line).ok
                  [] bank_type = "barclays" -> ReMatch(BARCLAYS_ROW_REGEX, line).ok
                  [] bank_type = "bank_of_america" -> ReMatch(BOA_ROW_REGEX, line).ok
                  [] bank_type = "citi" -> ReSearch(CITI_ROW_REGEX, line).ok
                  [] bank_type = "amex" ->
                        ReMatch(AMEX_ROW_REGEX, Strip(Replace(line, AmexMark, ""))).ok
                  [] OTHER -> /\ is_transaction_row(line)
                              /\ normalize_amount(SplitWords(line)[Len(SplitWords(line))]).ok
            c == RowCandidate(bank_type, line)
            r == rows'[Len(rows')]
        IN  /\ bank_type = detect_bank_type_from_filename(card_name)
            /\ bank_type' = bank_type
            /\ ri' = ri + 1
            /\ IF Matches /\ ~ContainsAny(Lower(c.merchant), STATEMENT_NOISE_KEYWORDS)
               THEN /\ Len(rows') = Len(rows) + 1
                    /\ SubSeq(rows', 1, Len(rows)) = rows
                    /\ r.date = c.date
                    /\ r.merchant = c.merchant
                    /\ Abs(r.amount) = Abs(c.amount)
                    /\ r.card = card_name
                    /\ r.bank_type = detect_bank_type_from_filename(card_name)
               ELSE rows' = rows]_vars

\* an Apple statement of a refund and a purchase has returned its two records
\* in the order of the lines, each with the tag and the label
C22_Witness ==
    /\ pc = "done"
    /\ card_name = "Apple Card"
    /\ bank_type = "apple"
    /\ lines = <<"01/22 AMZN REFUND $7.00", "01/15 STARBUCKS #123 $5.25">>
    /\ Len(rows) = 2
    /\ rows[1].merchant = "AMZN REFUND"
    /\ rows[2].merchant = "STARBUCKS #123"
    /\ rows[1].card = "Apple Card"
    /\ rows[2].bank_type = "apple"

\* C23: primary and fallback patterns of the Amex summary. When
\* extract_amex_summary has returned, each of the three fields is the amount
\* of the primary pattern's match when that pattern matches the text,
\* whatever the secondary pattern would give; otherwise it is the amount that
\* the secondary pattern gives (for the total purchases: the last "$" amount
\* on the first line that holds "Total New Charges"); and it is null only
\* when neither gives an amount.
C23_PrimaryBeforeFallback ==
    LET t == Replace(ReSub(BlanksRe, " ", text), "\r", "\n")
        Value(m) == Some(_money_to_float(m.g["1"]).v)
        Pick(primary, second) ==
            IF ReSearch(primary, t).ok THEN Value(ReSearch(primary, t))
            ELSE IF ReSearch(second, t).ok THEN Value(ReSearch(second, t))
            ELSE None
        line == ReSearch(AmexRe.charges_line, t)
        amounts == ReFindAll(AmexRe.dollar_amount, Group0(t, line))
    IN  (pc = "reconcile" /\ bank_type = "amex" /\ text # "") =>
            /\ statement_balance = Pick(AmexRe.balance, AmexRe.balance2)
            /\ payments_credits_total = Pick(AmexRe.payments, AmexRe.payments2)
            /\ spend_total =
                   IF ReSearch(AmexRe.charges, t).ok
                   THEN Value(ReSearch(AmexRe.charges, t))
                   ELSE IF line.ok /\ amounts # <<>>
                   THEN Some(_money_to_float(amounts[Len(amounts)]).v)
                   ELSE None
            /\ text = "Total New Charges $12.05 $624.13 $640.00\nAccount Total New Charges +$636.18"
                   => spend_total = Some(63618)
            /\ text = "Total New Charges $12.05 $624.13 $640.00" => spend_total = Some(64000)
            /\ text = "New Balance $700.00\nPay Over Time and/or Cash Advance New Balance = $612.08"
                   => statement_balance = Some(61208)
            /\ text = "Total New Charges" => spend_total = None

\* both patterns of the statement balance match, with different amounts, and
\* the balance is the amount of the primary pattern
C23_Witness ==
    /\ pc = "reconcile"
    /\ bank_type = "amex"
    /\ text = "New Balance $700.00\nPay Over Time and/or Cash Advance New Balance = $612.08"
    /\ ReSearch(AmexRe.balance2, text).ok
    /\ statement_balance = Some(61208)

\* C24: Citi description derivation. Whenever the row loop appends the record
\* of a Citi line, the description of the record is the line without the
\* transaction date and the amount that the row pattern matched, trimmed, and
\* so holds neither of the two tokens, wherever the date stands on the line.
C24_DescriptorWithoutDateAndAmount ==
    [][(pc = "rows" /\ bank_type = "citi" /\ rows' # rows) =>
        LET line == lines[ri]
            m == ReSearch(CITI_ROW_REGEX, line)
            r == rows'[Len(rows')]
        IN  /\ m.ok
            /\ ~Contains(r.merchant, m.g["trans_date"])
            /\ ~Contains(r.merchant, m.g["amount"])]_vars

\* C25 as stated: per-issuer grammar dispatch. A pass of the row loop appends
\* a record only for a line that the dedicated row pattern of the issuer
\* matches, for each of the seven issuers, and only for a generic document
\* for a line that the generic date and amount rule accepts. The module has
\* no row pattern for discover and apple.
C25_DedicatedPatternPerIssuer ==
    [][(pc = "rows" /\ ri <= Len(lines) /\ rows' # rows) =>
        LET line == lines[ri]
        IN  CASE bank_type = "capital_one" -> ReMatch(CAPONE_ROW_REGEX, line).ok
              [] bank_type = "barclays" -> ReMatch(BARCLAYS_ROW_REGEX, line).ok
              [] bank_type = "bank_of_america" -> ReMatch(BOA_ROW_REGEX, line).ok
              [] bank_type = "citi" -> ReSearch(CITI_ROW_REGEX, line).ok
              [] bank_type = "amex" ->
                    ReMatch(AMEX_ROW_REGEX, Strip(Replace(line, AmexMark, ""))).ok
              [] bank_type = "generic" -> is_transaction_row(line)
              [] OTHER -> FALSE]_vars

\* C25, amended: capital_one, barclays, bank_of_america, citi and amex are
\* each matched with their own row pattern, and the description of the record
\* is the one that pattern gives; the generic date and amount rule is applied
\* to the documents detected as generic, discover or apple, for which a line
\* gives a record exactly when the rule accepts it and its description holds
\* no statement keyword, with the first token as the date, the last as the
\* amount and the tokens between as the description.
C25_GenericRuleForTheRest ==
    [][(pc = "rows" /\ ri <= Len(lines)) =>
        LET line == lines[ri]
            parts == SplitWords(line)
            r == rows'[Len(rows')]
            desc(m) == Strip(m.g["desc"])
        IN  /\ bank_type \in {"generic", "discover", "apple"} =>
                /\ rows' # rows <=>
                       /\ is_transaction_row(line)
                       /\ normalize_amount(parts[Len(parts)]).ok
                       /\ ~ContainsAny(Lower(Join(SubSeq(parts, 2, Len(parts) - 1), " ")),
                                       STATEMENT_NOISE_KEYWORDS)
                /\ rows' # rows =>
                       /\ r.date = parse_date(parts[1])
                       /\ r.merchant = Strip(Join(SubSeq(parts, 2, Len(parts) - 1), " "))
                       /\ Abs(r.amount) = Abs(normalize_amount(parts[Len(parts)]).v)
            /\ (bank_type = "capital_one" /\ rows' # rows) =>
                /\ ReMatch(CAPONE_ROW_REGEX, line).ok
                /\ r.merchant = desc(ReMatch(CAPONE_ROW_REGEX, line))
            /\ (bank_type = "barclays" /\ rows' # rows) =>
                /\ ReMatch(BARCLAYS_ROW_REGEX, line).ok
                /\ r.merchant = desc(ReMatch(BARCLAYS_ROW_REGEX, line))
            /\ (bank_type = "bank_of_america" /\ rows' # rows) =>
                /\ ReMatch(BOA_ROW_REGEX, line).ok
                /\ r.merchant = desc(ReMatch(BOA_ROW_REGEX, line))
            /\ (bank_type = "citi" /\ rows' # rows) => ReSearch(CITI_ROW_REGEX, line).ok
            /\ (bank_type = "amex" /\ rows' # rows) =>
                /\ ReMatch(AMEX_ROW_REGEX, Strip(Replace(line, AmexMark, ""))).ok
                /\ r.merchant = desc(ReMatch(AMEX_ROW_REGEX, Strip(Replace(line, AmexMark, ""))))]_vars

\* a Discover statement has returned the record that the generic rule reads
\* from its line
C25_Witness ==
    /\ pc = "done"
    /\ bank_type = "discover"
    /\ lines = <<"01/15 STARBUCKS #123 $5.25">>
    /\ Len(rows) = 1
    /\ rows[1].merchant = "STARBUCKS #123"
    /\ rows[1].amount = 525

\* C26: stitcher buffer invariant. Before the first line and after each line
\* has been processed, the pending buffer holds no currency-amount token;
\* consequently a pass on a date-start line emits nothing of the prior buffer
\* (it emits the line alone or nothing), the statements after the loop emit
\* nothing, and the buffer pending at the end of the input is discarded.
C26_BufferHoldsNoAmount ==
    [][/\ pc = "stitch" => ~ReSearch(Compile(Frag.amount), buffer).ok
       /\ pc' = "stitch" => ~ReSearch(Compile(Frag.amount), buffer').ok
       /\ (pc = "stitch" /\ si <= Len(raw_lines) /\ Strip(raw_lines[si]) # ""
           /\ StartsWithDate(Strip(raw_lines[si]))) =>
               \/ stitched' = stitched /\ buffer' = Strip(raw_lines[si])
               \/ stitched' = Append(stitched, Strip(raw_lines[si])) /\ buffer' = ""
       /\ (pc = "stitch" /\ pc' = "rows") =>
               /\ lines' = stitched
               /\ \A i \in 1..Len(lines') : lines'[i] # Strip(buffer)]_vars

\* the row without an amount was dropped when the next date-start line came,
\* and the date-start line pending at the end of the input was discarded
C26_Witness ==
    /\ pc = "rows"
    /\ raw_lines = <<"03/14 UBER TRIP", "03/15 LYFT $8.00", "Mar 16 SHOP">>
    /\ buffer = "Mar 16 SHOP"
    /\ lines = <<"03/15 LYFT $8.00">>

\* C27: stitcher output count and shape. Of the input lines that are not
\* blank, trimmed, those that hold a currency-amount token are as many as the
\* lines emitted; the k-th emitted line is the join with single spaces of
\* consecutive such input lines that ends with the k-th amount-bearing line
\* and begins after the one before it, so that it holds an amount, no input
\* line is in two emitted lines, and the emitted lines are in input order.
\* This holds of the lines emitted so far after every pass and of the result.
C27_OneLinePerAmountLine ==
    LET read == IF pc = "stitch" THEN si - 1 ELSE Len(raw_lines)
        kept == {i \in 1..read : Strip(raw_lines[i]) # ""}
        nth(S, k) == CHOOSE i \in S : Cardinality({j \in S : j < i}) = k - 1
        nb == [k \in 1..Cardinality(kept) |-> Strip(raw_lines[nth(kept, k)])]
        amt == {i \in 1..Len(nb) : HasAmount(nb[i])}
        last(k) == nth(amt, k)
        prev(k) == IF k = 1 THEN 0 ELSE nth(amt, k - 1)
        out == IF pc = "stitch" THEN stitched ELSE lines
    IN  pc \in {"stitch", "rows"} =>
            /\ Len(out) = Cardinality(amt)
            /\ \A k \in 1..Len(out) :
                /\ \E j \in (prev(k) + 1)..last(k) :
                       out[k] = Join(SubSeq(nb, j, last(k)), " ")
                /\ HasAmount(out[k])

\* a wrapped row and a row on one line give two lines, in their order
C27_Witness ==
    /\ pc = "rows"
    /\ raw_lines = <<"03/14 UBER TRIP", "SAN FRANCISCO $12.34", "03/15 LYFT $8.00">>
    /\ lines = <<"03/14 UBER TRIP SAN FRANCISCO $12.34", "03/15 LYFT $8.00">>

C29_StitchTwiceIsStitchOnce ==
    /\ pc = "rows" => stitch_wrapped_lines(lines) = lines
    /\ pc = "stitch" => stitch_wrapped_lines(stitched) = stitched

\* three lines were stitched into two, one of them without a date at its
\* start, and stitching the two again returns them
C29_Witness ==
    /\ pc = "rows"
    /\ raw_lines = <<"03/14 UBER TRIP", "SAN FRANCISCO $12.34", " TOTAL $9.99 ">>
    /\ lines = <<"03/14 UBER TRIP SAN FRANCISCO $12.34", "TOTAL $9.99">>
    /\ stitch_wrapped_lines(lines) = lines
    /\ stitch_wrapped_lines(raw_lines) = lines

\* C30: the statement balance is never lost to an issuer override. When the
\* summary step is over and one of the three balance patterns applied to
\* every issuer matches the text, the statement balance is not null,
\* whatever the issuer tag.
C30_BalanceNeverLost ==
    (pc \in {"reconcile", "done"}
     /\ \E k \in 1..Len(balance_patterns) : ReSearch(balance_patterns[k], text).ok)
        => statement_balance # None

====
